---- MODULE Spec2Model ----
(***************************************************************************)
(* A model of the terminal execution engine (src/src/terminal/engine.rs),  *)
(* its sessions and blocks (terminal/mod.rs, terminal/block.rs) and the    *)
(* event channel it publishes to.                                          *)
(*                                                                         *)
(* Callers are concurrent tasks invoking the engine's public async         *)
(* methods.  Every `.await` on one of the two tokio RwLocks is a           *)
(* suspension point; the code between two suspension points runs as one    *)
(* step.  Each command started by execute_command owns a background task   *)
(* (run_command_async) with a stdout reader, a stderr reader and the       *)
(* wait on the child.                                                      *)
(*                                                                         *)
(* The command history (src/src/terminal/history.rs) is an object of its   *)
(* own, with synchronous operations; the engine never touches it.          *)
(***************************************************************************)
EXTENDS Integers, Sequences, FiniteSets, TLC

\* ---------------------------------------------------------------- bounds
\* Sessions ever created (TerminalSession::new draws a fresh Uuid).
MaxSessions == 2
\* Blocks ever created in sessions (Block::new draws a fresh Uuid).
MaxBlocks == 3
\* Lines a child writes to each of its two standard streams.
MaxLines == 1
\* Commands whose background tasks run in the pipeline specification.
MaxPipelines == 1

\* max_entries of the CommandHistory.
MaxEntries == 2
\* get_previous calls counted in one row.
MaxRecalls == 4
\* add_entry calls made on the history between two clears.
MaxAdds == 4
\* PtySessions created.
MaxPtys == 2
\* Bytes fed to the VteProcessor.
MaxBytes == 4
\* Parameters of one CSI sequence handed to the performer.
MaxParams == 2

\* Concurrent tasks calling the engine.
Callers == {"t1", "t2"}

\* ------------------------------------------------------------ value sets
\* Option<T>: None is the empty sequence, Some(v) the one-element sequence.
None == <<>>

Some(v) == <<v>>

IsSome(o) == Len(o) = 1

Unwrap(o) == o[1]

\* Directories that exist; any other path makes set_current_dir fail.
Dirs == {"/", "/tmp"}

\* Command strings, as their whitespace-separated words.
Commands ==
    { <<"clear">>, <<"exit">>, <<"quit">>, <<"pwd">>, <<"ls">>,
      <<"cd", "/">>, <<"cd", "/tmp">>, <<"cd", "..">>,
      <<"cd", "/nonexistent">> }

\* Command strings handed to execute_command in the pipeline: a built-in
\* and an ordinary one.
ExecCommands == { <<"clear">>, <<"ls">> }

\* The command string handed to execute_command where only sessions and
\* blocks are looked at: no operation on them reads it.
SessionCommands == { <<"ls">> }

\* Exit codes handed to handle_command_finished.
ExitArgs == {0, 1}

\* What the OS reports for a reaped child: ExitStatus::code().
ExitStatuses == {None, Some(0), Some(1)}

VARIABLES
    sessions,           \* TerminalEngine.sessions: id -> TerminalSession
    active_session_id,  \* TerminalEngine.active_session_id: Option<Uuid>
    is_running,         \* TerminalEngine.is_running
    events,             \* the unbounded FIFO channel behind event_sender
    tasks,              \* command id -> the task tokio::spawn started for it
    cwd,                \* the process working directory (std::env)
    nextSession,        \* next fresh session Uuid
    nextBlock,          \* next fresh block Uuid
    sessionsQ,          \* tasks queued on the sessions RwLock, FIFO
    activeQ,            \* tasks queued on the active_session_id RwLock, FIFO
    pc,                 \* caller -> the await it is at ("idle": no call)
    loc,                \* caller -> locals of the call in progress
    ret,                \* the return made by the step just taken, if any
    history,            \* a CommandHistory: entries, max_entries, current_index
    recalled,           \* what the CommandHistory call just made returned
    added,              \* the entries handed to add_entry since new or clear
    previous_calls,     \* get_previous calls made in a row from an unset
                        \* cursor (-1: the row was broken by get_next)
    ptys,               \* the PtySessions create_pty returned, in order
    pty_ret,            \* what the PtySession call just made did
    parser,             \* VteProcessor.parser: the state of vte::Parser
    actions,            \* VteProcessor.performer.actions
    input,              \* the bytes of process_bytes's argument fed so far
    callback,           \* the Perform method the byte just fed invoked
    vte_pc,             \* "idle", or "feeding" inside process_bytes
    processed           \* the vector the last process_bytes returned

\* The CommandHistory and what is recorded about the calls made on it.
historyVars == << history, recalled, added, previous_calls >>

\* The PtySessions and what is recorded about the calls made on them.
ptyVars == << ptys, pty_ret >>

\* The VteProcessor and what is recorded about the bytes fed to it.
vteVars == << parser, actions, input, callback, vte_pc, processed >>

\* Everything outside the TerminalEngine.
outsideEngine == << historyVars, ptyVars, vteVars >>

vars ==
    << sessions, active_session_id, is_running, events, tasks, cwd,
       nextSession, nextBlock, sessionsQ, activeQ, pc, loc, ret,
       history, recalled, added, previous_calls,
       ptys, pty_ret, parser, actions, input, callback, vte_pc,
       processed >>

engineVars == << sessions, active_session_id, is_running, events, tasks, cwd,
                 nextSession, nextBlock >>

\* ------------------------------------------------------ blocks, sessions
\* Block::new: a fresh id, no exit code, no execution time.
Block_new(id, block_type) ==
    [ id |-> id, block_type |-> block_type,
      exit_code |-> None, execution_time |-> None ]

Block_command(id) == Block_new(id, "Command")

Block_output(id) == Block_new(id, "Output")

Block_error(id) == Block_new(id, "Error")

\* Block::set_exit_code
set_exit_code(block, code) == [block EXCEPT !.exit_code = Some(code)]

\* TerminalSession::new: no blocks, the process directory at construction.
TerminalSession_new(dir) == [ blocks |-> <<>>, current_directory |-> dir ]

\* A variant that puts the new block first.
add_block_front(session, block) ==
    [session EXCEPT !.blocks = <<block>> \o @]

\* TerminalSession::add_block
add_block(session, block) ==
    [session EXCEPT !.blocks = Append(@, block)]

\* blocks.iter_mut().rev().find(|b| b.id == id): the index of the last
\* block carrying id, 0 when no block does.
FindRev(blocks, id) ==
    LET hits == { i \in 1..Len(blocks) : blocks[i].id = id }
    IN  IF hits = {} THEN 0 ELSE CHOOSE i \in hits : \A j \in hits : j <= i

\* The sessions the loop over sessions_guard.values_mut() can stop at.
Matching(id) ==
    { s \in DOMAIN sessions : FindRev(sessions[s].blocks, id) # 0 }

\* ExitStatus::code().unwrap_or(-1)
ExitCodeOf(status) == IF IsSome(status) THEN Unwrap(status) ELSE -1

\* handle_builtin_command's match on command.trim().
BuiltinKind(command) ==
    CASE command = <<"clear">> -> "clear"
      [] command = <<"exit">> \/ command = <<"quit">> -> "exit"
      [] Len(command) = 2 /\ command[1] = "cd" -> "cd"
      [] command = <<"pwd">> -> "pwd"
      [] OTHER -> "none"

\* ----------------------------------------------------------------- events
CommandStarted(id, command) ==
    [ type |-> "CommandStarted", id |-> id, command |-> command ]

CommandOutput(id, is_stderr) ==
    [ type |-> "CommandOutput", id |-> id, is_stderr |-> is_stderr ]

CommandFinished(id, exit_code) ==
    [ type |-> "CommandFinished", id |-> id, exit_code |-> exit_code ]

\* The Error event is global; `id` records which command's task sent it
\* (the code puts it nowhere in the event).
ErrorEvent(id) == [ type |-> "Error", id |-> id ]

\* ------------------------------------------------------------------ locals
NoLoc ==
    [ op |-> "none", session_id |-> 0, id |-> 0, flag |-> FALSE,
      code |-> 0, command |-> <<>>, dir |-> "" ]

NoRet == [ caller |-> "", op |-> "none", ok |-> FALSE, val |-> <<>> ]

Ok(op, val) == [ caller |-> "", op |-> op, ok |-> TRUE, val |-> val ]

Err(op) == [ caller |-> "", op |-> op, ok |-> FALSE, val |-> <<>> ]

\* ---------------------------------------------------------------- history
\* HistoryEntry::new(command, working_directory): the fields add_entry and
\* the recall operations look at or hand back.
HistoryEntry_new(command, working_directory) ==
    [ command |-> command, working_directory |-> working_directory ]

\* Command texts recorded in the history.
HistoryCommands == {"a", "b", "c"}

HistoryEntries ==
    { HistoryEntry_new(c, d) : c \in HistoryCommands, d \in Dirs }

\* CommandHistory::new(max_entries).  current_index is a usize index into
\* entries, counted from 0 as in the code.
CommandHistory_new(max_entries) ==
    [ entries |-> << >>, max_entries |-> max_entries, current_index |-> None ]

\* VecDeque::get(index): the entry at a 0-based index, None outside.
EntryAt(entries, index) ==
    IF index >= 0 /\ index < Len(entries)
    THEN Some(entries[index + 1]) ELSE None

\* What a CommandHistory call returned: nothing yet, or the Option.
NoCall == [ op |-> "none", val |-> None ]

Returned(op, val) == [ op |-> op, val |-> val ]

\* ------------------------------------------------------------------- Init
\* No PtySession has been created.
PtyInit ==
    /\ ptys = << >>
    /\ pty_ret = [ op |-> "none", pty |-> 0, value |-> "none",
                   poll |-> "none", kill |-> FALSE, wait |-> FALSE ]

\* VteProcessor::new: vte::Parser::new() and an empty action vector.
VteInit ==
    /\ parser = [ state |-> "Ground", params |-> << >>, group |-> << >>,
                  param |-> 0 ]
    /\ actions = << >>
    /\ input = << >>
    /\ callback = [ op |-> "none", params |-> << >>, c |-> 0 ]
    /\ vte_pc = "idle"
    /\ processed = << >>

Init ==
    /\ sessions = << >>
    /\ active_session_id = None
    /\ is_running = TRUE
    /\ events = << >>
    /\ tasks = << >>
    /\ cwd = "/tmp"
    /\ nextSession = 1
    /\ nextBlock = 1
    /\ sessionsQ = << >>
    /\ activeQ = << >>
    /\ pc = [p \in Callers |-> "idle"]
    /\ loc = [p \in Callers |-> NoLoc]
    /\ ret = NoRet
    /\ history = CommandHistory_new(MaxEntries)
    /\ recalled = NoCall
    /\ added = << >>
    /\ previous_calls = 0
    /\ PtyInit
    /\ VteInit

\* ------------------------------------------------------------------ locks
\* Which lock the await at a pc acquires, and how.
SessionsWritePcs ==
    { "cs_sessions", "ex_add", "ho_sessions", "hf_sessions", "cl_sessions",
      "sd_sessions", "cd_sessions" }

SessionsReadPcs == { "ga_sessions", "sw_sessions", "ex_wd", "gb_sessions" }

ActiveWritePcs == { "cs_active", "sw_active" }

ActiveReadPcs == { "ga_active", "ex_active", "cd_active" }

\* Read guards alive across an await.  switch_session keeps its sessions
\* read guard while it awaits the active-id write lock.
SessionsReaders == { p \in Callers : pc[p] = "sw_active" }

\* get_active_session and the cd built-in keep the active-id read guard
\* while they await the sessions lock; execute_command keeps the guard of
\* its match scrutinee for the whole None arm, the create_session call.
ActiveReaders ==
    { p \in Callers :
        \/ pc[p] \in {"ga_sessions", "cd_sessions"}
        \/ loc[p].op = "execute" /\ pc[p] \in {"cs_sessions", "cs_active"} }

InQ(q, p) == \E i \in 1..Len(q) : q[i] = p

\* tokio's RwLock is a FIFO-fair semaphore: an acquire succeeds at once
\* when nobody is queued and the lock is compatible, else it queues and is
\* served when it is first in the queue and the lock is compatible.  No
\* write guard is alive across an await in this code, so a read is
\* compatible always and a write when no read guard is alive.
Compatible(p) ==
    CASE pc[p] \in SessionsWritePcs -> SessionsReaders = {}
      [] pc[p] \in ActiveWritePcs -> ActiveReaders = {}
      [] OTHER -> TRUE

QueueOf(p) ==
    IF pc[p] \in SessionsWritePcs \cup SessionsReadPcs THEN sessionsQ
    ELSE IF pc[p] \in ActiveWritePcs \cup ActiveReadPcs THEN activeQ
    ELSE << >>

CanEnter(p) ==
    /\ Compatible(p)
    /\ IF Len(QueueOf(p)) = 0 THEN TRUE ELSE Head(QueueOf(p)) = p

\* Leaving the queue on acquisition.
Dequeue(q, p) == IF Len(q) > 0 /\ Head(q) = p THEN Tail(q) ELSE q

Acquire(p) ==
    /\ CanEnter(p)
    /\ sessionsQ' = Dequeue(sessionsQ, p)
    /\ activeQ' = Dequeue(activeQ, p)

\* The acquire cannot succeed at once: the task joins the lock's queue.
Wait(p) ==
    /\ pc[p] \in SessionsWritePcs \cup SessionsReadPcs
                 \cup ActiveWritePcs \cup ActiveReadPcs
    /\ ~InQ(QueueOf(p), p)
    /\ ~(Compatible(p) /\ Len(QueueOf(p)) = 0)
    /\ IF pc[p] \in SessionsWritePcs \cup SessionsReadPcs
       THEN sessionsQ' = Append(sessionsQ, p) /\ UNCHANGED activeQ
       ELSE activeQ' = Append(activeQ, p) /\ UNCHANGED sessionsQ
    /\ ret' = NoRet
    /\ UNCHANGED << engineVars, pc, loc >>
    /\ UNCHANGED outsideEngine

Goto(p, label, locals) ==
    /\ pc' = [pc EXCEPT ![p] = label]
    /\ loc' = [loc EXCEPT ![p] = locals]
    /\ ret' = NoRet

Return(p, value) ==
    /\ pc' = [pc EXCEPT ![p] = "idle"]
    /\ loc' = [loc EXCEPT ![p] = NoLoc]
    /\ ret' = [value EXCEPT !.caller = p]

\* Fresh ids still to be drawn by calls already in progress; a call starts
\* only when the ids it may draw are within the bounds.
PendingSessions == Cardinality({ p \in Callers : pc[p] = "ex_active" })

PendingBlocks ==
    Cardinality({ p \in Callers :
        \/ pc[p] \in {"ex_active", "ex_wd", "ho_sessions"}
        \/ loc[p].op = "execute" /\ pc[p] \in {"cs_sessions", "cs_active"} })

SessionsLeft == nextSession + PendingSessions <= MaxSessions

BlocksLeft == nextBlock + PendingBlocks <= MaxBlocks

\* Ids a caller can name: every block id drawn so far, and 0 for a Uuid
\* no block carries.
KnownIds == 0..(nextBlock - 1)

\* Session ids a caller can name: those drawn so far, and 0 for a Uuid no
\* session carries.
KnownSessions == 0..(nextSession - 1)

\* ------------------------------------------------------- create_session
\* TerminalSession::new() runs before the first await.
CallCreateSession(p) ==
    /\ pc[p] = "idle"
    /\ SessionsLeft
    /\ nextSession' = nextSession + 1
    /\ pc' = [pc EXCEPT ![p] = "cs_sessions"]
    /\ loc' = [loc EXCEPT ![p] =
                 [NoLoc EXCEPT !.op = "create_session",
                               !.session_id = nextSession, !.dir = cwd]]
    /\ ret' = NoRet
    /\ UNCHANGED << sessions, active_session_id, is_running, events, tasks,
                    cwd, nextBlock, sessionsQ, activeQ >>
    /\ UNCHANGED outsideEngine

\* sessions.write().await; sessions.insert(session_id, session)
CreateSessionInsert(p) ==
    /\ pc[p] = "cs_sessions"
    /\ Acquire(p)
    /\ sessions' = (loc[p].session_id :> TerminalSession_new(loc[p].dir))
                      @@ sessions
    /\ Goto(p, "cs_active", loc[p])
    /\ UNCHANGED << active_session_id, is_running, events, tasks, cwd,
                    nextSession, nextBlock >>
    /\ UNCHANGED outsideEngine

\* A variant that makes every new session the active one.
ActiveAfterCreateAlways(active, session_id) == Some(session_id)

\* What create_session writes under the active-id write lock.
ActiveAfterCreate(active, session_id) ==
    IF active = None THEN Some(session_id) ELSE active

\* active_session_id.write().await; set it when it is None; return the
\* id, to the caller or into the None arm of execute_command's match.
CreateSessionActivate(p) ==
    /\ pc[p] = "cs_active"
    /\ Acquire(p)
    /\ active_session_id' =
          ActiveAfterCreate(active_session_id, loc[p].session_id)
    /\ IF loc[p].op = "execute"
       THEN Goto(p, "ex_wd", loc[p])
       ELSE Return(p, Ok("create_session", Some(loc[p].session_id)))
    /\ UNCHANGED << sessions, is_running, events, tasks, cwd,
                    nextSession, nextBlock >>
    /\ UNCHANGED outsideEngine

\* ---------------------------------------------------- get_active_session
CallGetActiveSession(p) ==
    /\ pc[p] = "idle"
    /\ pc' = [pc EXCEPT ![p] = "ga_active"]
    /\ loc' = [loc EXCEPT ![p] = [NoLoc EXCEPT !.op = "get_active_session"]]
    /\ ret' = NoRet
    /\ UNCHANGED << engineVars, sessionsQ, activeQ >>
    /\ UNCHANGED outsideEngine

\* Where get_active_session returns to: its caller, or the clear built-in,
\* which goes on to clear_session(session.id) when it got a session.
GetActiveReturn(p, found, session_id) ==
    IF loc[p].op = "builtin_clear"
    THEN IF found
         THEN Goto(p, "cl_sessions", [loc[p] EXCEPT !.session_id = session_id])
         ELSE Return(p, Ok("builtin", <<"System", "Screen cleared">>))
    ELSE Return(p, Ok("get_active_session",
                      IF found THEN Some(session_id) ELSE None))

\* active_session_id.read().await
GetActiveRead(p) ==
    /\ pc[p] = "ga_active"
    /\ Acquire(p)
    /\ IF IsSome(active_session_id)
       THEN Goto(p, "ga_sessions",
                 [loc[p] EXCEPT !.session_id = Unwrap(active_session_id)])
       ELSE GetActiveReturn(p, FALSE, 0)
    /\ UNCHANGED engineVars
    /\ UNCHANGED outsideEngine

\* sessions.read().await; sessions.get(&id).cloned()
GetActiveLookup(p) ==
    /\ pc[p] = "ga_sessions"
    /\ Acquire(p)
    /\ GetActiveReturn(p, loc[p].session_id \in DOMAIN sessions,
                       loc[p].session_id)
    /\ UNCHANGED engineVars
    /\ UNCHANGED outsideEngine

\* -------------------------------------------------------- switch_session
CallSwitchSession(p, session_id) ==
    /\ pc[p] = "idle"
    /\ pc' = [pc EXCEPT ![p] = "sw_sessions"]
    /\ loc' = [loc EXCEPT ![p] =
                 [NoLoc EXCEPT !.op = "switch_session",
                               !.session_id = session_id]]
    /\ ret' = NoRet
    /\ UNCHANGED << engineVars, sessionsQ, activeQ >>
    /\ UNCHANGED outsideEngine

\* sessions.read().await; contains_key
SwitchSessionCheck(p) ==
    /\ pc[p] = "sw_sessions"
    /\ Acquire(p)
    /\ IF loc[p].session_id \in DOMAIN sessions
       THEN Goto(p, "sw_active", loc[p])
       ELSE Return(p, Err("switch_session"))
    /\ UNCHANGED engineVars
    /\ UNCHANGED outsideEngine

\* active_session_id.write().await, the sessions read guard still alive
SwitchSessionSet(p) ==
    /\ pc[p] = "sw_active"
    /\ Acquire(p)
    /\ active_session_id' = Some(loc[p].session_id)
    /\ Return(p, Ok("switch_session", None))
    /\ UNCHANGED << sessions, is_running, events, tasks, cwd,
                    nextSession, nextBlock >>
    /\ UNCHANGED outsideEngine

\* ------------------------------------------------------- execute_command
CallExecute(p, command) ==
    /\ pc[p] = "idle"
    /\ BlocksLeft
    /\ active_session_id = None => SessionsLeft
    /\ pc' = [pc EXCEPT ![p] = "ex_active"]
    /\ loc' = [loc EXCEPT ![p] =
                 [NoLoc EXCEPT !.op = "execute", !.command = command]]
    /\ ret' = NoRet
    /\ UNCHANGED << engineVars, sessionsQ, activeQ >>
    /\ UNCHANGED outsideEngine

\* match *self.active_session_id.read().await { Some(id) => id,
\* None => self.create_session().await? }.  The read guard is a temporary
\* of the scrutinee: it lives to the end of the match, so in the None arm
\* it is alive during the whole create_session call.
ExecuteReadActive(p) ==
    /\ pc[p] = "ex_active"
    /\ Acquire(p)
    /\ IF IsSome(active_session_id)
       THEN /\ Goto(p, "ex_wd",
                    [loc[p] EXCEPT !.session_id = Unwrap(active_session_id)])
            /\ UNCHANGED nextSession
       ELSE /\ Goto(p, "cs_sessions",
                    [loc[p] EXCEPT !.session_id = nextSession, !.dir = cwd])
            /\ nextSession' = nextSession + 1
    /\ UNCHANGED << sessions, active_session_id, is_running, events, tasks,
                    cwd, nextBlock >>
    /\ UNCHANGED outsideEngine

\* sessions.read().await: the session's directory, or the process's when
\* the session is not in the map; then CommandBlock::new draws the id.
ExecuteWorkingDirectory(p) ==
    /\ pc[p] = "ex_wd"
    /\ Acquire(p)
    /\ Goto(p, "ex_add",
            [loc[p] EXCEPT
               !.dir = IF loc[p].session_id \in DOMAIN sessions
                       THEN sessions[loc[p].session_id].current_directory
                       ELSE cwd,
               !.id = nextBlock])
    /\ nextBlock' = nextBlock + 1
    /\ UNCHANGED << sessions, active_session_id, is_running, events, tasks,
                    cwd, nextSession >>
    /\ UNCHANGED outsideEngine

\* if let Some(session) = sessions.get_mut(&session_id) { add_block }
SessionsAfterExecute(map, session_id, id) ==
    IF session_id \in DOMAIN map
    THEN [map EXCEPT ![session_id] = add_block(@, Block_command(id))]
    ELSE map

\* sessions.write().await: append the Command block
ExecuteAddBlock(p) ==
    /\ pc[p] = "ex_add"
    /\ Acquire(p)
    /\ sessions' = SessionsAfterExecute(sessions, loc[p].session_id, loc[p].id)
    /\ Goto(p, "ex_send", loc[p])
    /\ UNCHANGED << active_session_id, is_running, events, tasks, cwd,
                    nextSession, nextBlock >>
    /\ UNCHANGED outsideEngine

\* The task tokio::spawn starts: run_command_async has not yet run.
NewTask(command) ==
    [ command |-> command, state |-> "start", out_left |-> 0, err_left |-> 0 ]

\* A variant that spawns the task without publishing CommandStarted.
EventsAfterExecuteUnsent(queue, id, command) == queue

\* event_sender.send(CommandStarted), then tokio::spawn, then Ok(id)
EventsAfterExecute(queue, id, command) ==
    Append(queue, CommandStarted(id, command))

TasksAfterExecute(map, id, command) == (id :> NewTask(command)) @@ map

ExecuteSendAndSpawn(p) ==
    /\ pc[p] = "ex_send"
    /\ events' = EventsAfterExecute(events, loc[p].id, loc[p].command)
    /\ tasks' = TasksAfterExecute(tasks, loc[p].id, loc[p].command)
    /\ Return(p, Ok("execute", Some(loc[p].id)))
    /\ UNCHANGED << sessions, active_session_id, is_running, cwd,
                    nextSession, nextBlock, sessionsQ, activeQ >>
    /\ UNCHANGED outsideEngine

\* ----------------------------------------------------- run_command_async
\* Command::new(shell).args(["-c", command]).spawn() succeeds: the child
\* runs and will write up to MaxLines lines to each stream; the two
\* reader tasks are spawned.
SpawnChild(id) ==
    /\ id \in DOMAIN tasks
    /\ tasks[id].state = "start"
    /\ \E n_out \in 0..MaxLines, n_err \in 0..MaxLines :
          tasks' = [tasks EXCEPT ![id].state = "running",
                                 ![id].out_left = n_out,
                                 ![id].err_left = n_err]
    /\ UNCHANGED << sessions, active_session_id, is_running, events, cwd,
                    nextSession, nextBlock, sessionsQ, activeQ, pc, loc >>
    /\ ret' = NoRet
    /\ UNCHANGED outsideEngine

\* A variant that reports the failure as a finished command as well.
EventsAfterErrorAndFinished(queue, id) ==
    Append(Append(queue, ErrorEvent(id)), CommandFinished(id, -1))

\* if let Err(e) = result { event_sender.send(TerminalEvent::Error) }
EventsAfterError(queue, id) == Append(queue, ErrorEvent(id))

\* spawn()? fails: run_command_async returns Err and the spawned task
\* sends the global Error event.
SpawnFails(id) ==
    /\ id \in DOMAIN tasks
    /\ tasks[id].state = "start"
    /\ tasks' = [tasks EXCEPT ![id].state = "spawn_failed"]
    /\ events' = EventsAfterError(events, id)
    /\ UNCHANGED << sessions, active_session_id, is_running, cwd,
                    nextSession, nextBlock, sessionsQ, activeQ, pc, loc >>
    /\ ret' = NoRet
    /\ UNCHANGED outsideEngine

\* The stdout reader task: next_line() yields a line, which it sends.  It
\* is a task of its own, nothing joins it, so it runs on after the wait
\* on the child has returned.
StdoutReader(id) ==
    /\ id \in DOMAIN tasks
    /\ tasks[id].out_left > 0
    /\ tasks' = [tasks EXCEPT ![id].out_left = @ - 1]
    /\ events' = Append(events, CommandOutput(id, FALSE))
    /\ UNCHANGED << sessions, active_session_id, is_running, cwd,
                    nextSession, nextBlock, sessionsQ, activeQ, pc, loc >>
    /\ ret' = NoRet
    /\ UNCHANGED outsideEngine

\* The stderr reader task.
StderrReader(id) ==
    /\ id \in DOMAIN tasks
    /\ tasks[id].err_left > 0
    /\ tasks' = [tasks EXCEPT ![id].err_left = @ - 1]
    /\ events' = Append(events, CommandOutput(id, TRUE))
    /\ UNCHANGED << sessions, active_session_id, is_running, cwd,
                    nextSession, nextBlock, sessionsQ, activeQ, pc, loc >>
    /\ ret' = NoRet
    /\ UNCHANGED outsideEngine

\* A variant that publishes CommandFinished twice.
EventsAfterWaitTwice(queue, id, status) ==
    Append(Append(queue, CommandFinished(id, ExitCodeOf(status))),
           CommandFinished(id, ExitCodeOf(status)))

\* What run_command_async sends once child.wait() returned Ok(status).
EventsAfterWait(queue, id, status) ==
    Append(queue, CommandFinished(id, ExitCodeOf(status)))

\* child.wait().await returns Ok: the child has exited, whatever the
\* readers have forwarded so far.
WaitReturns(id) ==
    /\ id \in DOMAIN tasks
    /\ tasks[id].state = "running"
    /\ \E status \in ExitStatuses :
          events' = EventsAfterWait(events, id, status)
    /\ tasks' = [tasks EXCEPT ![id].state = "finished"]
    /\ UNCHANGED << sessions, active_session_id, is_running, cwd,
                    nextSession, nextBlock, sessionsQ, activeQ, pc, loc >>
    /\ ret' = NoRet
    /\ UNCHANGED outsideEngine

\* child.wait().await? fails: Err, and the spawned task sends Error.
WaitFails(id) ==
    /\ id \in DOMAIN tasks
    /\ tasks[id].state = "running"
    /\ tasks' = [tasks EXCEPT ![id].state = "wait_failed"]
    /\ events' = EventsAfterError(events, id)
    /\ UNCHANGED << sessions, active_session_id, is_running, cwd,
                    nextSession, nextBlock, sessionsQ, activeQ, pc, loc >>
    /\ ret' = NoRet
    /\ UNCHANGED outsideEngine

\* ------------------------------------------------- handle_command_output
CallHandleCommandOutput(p, id, is_stderr) ==
    /\ pc[p] = "idle"
    /\ BlocksLeft
    /\ pc' = [pc EXCEPT ![p] = "ho_sessions"]
    /\ loc' = [loc EXCEPT ![p] =
                 [NoLoc EXCEPT !.op = "handle_command_output",
                               !.id = id, !.flag = is_stderr]]
    /\ ret' = NoRet
    /\ UNCHANGED << engineVars, sessionsQ, activeQ >>
    /\ UNCHANGED outsideEngine

\* A variant that ignores is_stderr.
OutputBlockAlways(id, is_stderr) == Block_output(id)

\* Block::error(output) when is_stderr, Block::output(output) otherwise
OutputBlock(id, is_stderr) ==
    IF is_stderr THEN Block_error(id) ELSE Block_output(id)

\* The body of the loop for the session it stops at: add_block, break.
SessionsAfterOutput(map, s, new_id, is_stderr) ==
    [map EXCEPT ![s] = add_block(@, OutputBlock(new_id, is_stderr))]

\* sessions.write().await; the first session holding a block with the id
\* gets the new block.  The exit code of the block found is not looked at.
HandleCommandOutput(p) ==
    /\ pc[p] = "ho_sessions"
    /\ Acquire(p)
    /\ IF Matching(loc[p].id) = {}
       THEN UNCHANGED << sessions, nextBlock >>
       ELSE /\ \E s \in Matching(loc[p].id) :
                  sessions' =
                     SessionsAfterOutput(sessions, s, nextBlock, loc[p].flag)
            /\ nextBlock' = nextBlock + 1
    /\ Return(p, Ok("handle_command_output", None))
    /\ UNCHANGED << active_session_id, is_running, events, tasks, cwd,
                    nextSession >>
    /\ UNCHANGED outsideEngine

\* ----------------------------------------------- handle_command_finished
CallHandleCommandFinished(p, id, exit_code) ==
    /\ pc[p] = "idle"
    /\ pc' = [pc EXCEPT ![p] = "hf_sessions"]
    /\ loc' = [loc EXCEPT ![p] =
                 [NoLoc EXCEPT !.op = "handle_command_finished",
                               !.id = id, !.code = exit_code]]
    /\ ret' = NoRet
    /\ UNCHANGED << engineVars, sessionsQ, activeQ >>
    /\ UNCHANGED outsideEngine

\* block.set_exit_code(exit_code) on the block found; break.
SessionsAfterFinished(map, s, id, exit_code) ==
    [map EXCEPT ![s].blocks[FindRev(map[s].blocks, id)] =
        set_exit_code(@, exit_code)]

HandleCommandFinished(p) ==
    /\ pc[p] = "hf_sessions"
    /\ Acquire(p)
    /\ IF Matching(loc[p].id) = {}
       THEN UNCHANGED sessions
       ELSE \E s \in Matching(loc[p].id) :
               sessions' =
                  SessionsAfterFinished(sessions, s, loc[p].id, loc[p].code)
    /\ Return(p, Ok("handle_command_finished", None))
    /\ UNCHANGED << active_session_id, is_running, events, tasks, cwd,
                    nextSession, nextBlock >>
    /\ UNCHANGED outsideEngine

\* ---------------------------------------------------- get_session_blocks
CallGetSessionBlocks(p, session_id) ==
    /\ pc[p] = "idle"
    /\ pc' = [pc EXCEPT ![p] = "gb_sessions"]
    /\ loc' = [loc EXCEPT ![p] =
                 [NoLoc EXCEPT !.op = "get_session_blocks",
                               !.session_id = session_id]]
    /\ ret' = NoRet
    /\ UNCHANGED << engineVars, sessionsQ, activeQ >>
    /\ UNCHANGED outsideEngine

\* A variant that answers an unknown session with an empty list.
GetSessionBlocksOrEmpty(p) ==
    /\ pc[p] = "gb_sessions"
    /\ Acquire(p)
    /\ IF loc[p].session_id \in DOMAIN sessions
       THEN Return(p, Ok("get_session_blocks",
                         sessions[loc[p].session_id].blocks))
       ELSE Return(p, Ok("get_session_blocks", << >>))
    /\ UNCHANGED engineVars
    /\ UNCHANGED outsideEngine

\* sessions.read().await; Ok(session.blocks.clone()) or Err
GetSessionBlocks(p) ==
    /\ pc[p] = "gb_sessions"
    /\ Acquire(p)
    /\ IF loc[p].session_id \in DOMAIN sessions
       THEN Return(p, Ok("get_session_blocks",
                         sessions[loc[p].session_id].blocks))
       ELSE Return(p, Err("get_session_blocks"))
    /\ UNCHANGED engineVars
    /\ UNCHANGED outsideEngine

\* --------------------------------------------------------- clear_session
CallClearSession(p, session_id) ==
    /\ pc[p] = "idle"
    /\ pc' = [pc EXCEPT ![p] = "cl_sessions"]
    /\ loc' = [loc EXCEPT ![p] =
                 [NoLoc EXCEPT !.op = "clear_session",
                               !.session_id = session_id]]
    /\ ret' = NoRet
    /\ UNCHANGED << engineVars, sessionsQ, activeQ >>
    /\ UNCHANGED outsideEngine

\* session.blocks.clear()
SessionsAfterClear(map, session_id) ==
    [map EXCEPT ![session_id].blocks = << >>]

\* sessions.write().await; clear the session's blocks, or Err.  Called by
\* the clear built-in too, which answers with a System block.
ClearSession(p) ==
    /\ pc[p] = "cl_sessions"
    /\ Acquire(p)
    /\ IF loc[p].session_id \in DOMAIN sessions
       THEN /\ sessions' = SessionsAfterClear(sessions, loc[p].session_id)
            /\ IF loc[p].op = "builtin_clear"
               THEN Return(p, Ok("builtin", <<"System", "Screen cleared">>))
               ELSE Return(p, Ok("clear_session", None))
       ELSE /\ UNCHANGED sessions
            /\ IF loc[p].op = "builtin_clear"
               THEN Return(p, Err("builtin"))
               ELSE Return(p, Err("clear_session"))
    /\ UNCHANGED << active_session_id, is_running, events, tasks, cwd,
                    nextSession, nextBlock >>
    /\ UNCHANGED outsideEngine

\* -------------------------------------------------------------- shutdown
\* is_running.store(false) comes before the await.
CallShutdown(p) ==
    /\ pc[p] = "idle"
    /\ is_running' = FALSE
    /\ pc' = [pc EXCEPT ![p] = "sd_sessions"]
    /\ loc' = [loc EXCEPT ![p] = [NoLoc EXCEPT !.op = "shutdown"]]
    /\ ret' = NoRet
    /\ UNCHANGED << sessions, active_session_id, events, tasks, cwd,
                    nextSession, nextBlock, sessionsQ, activeQ >>
    /\ UNCHANGED outsideEngine

\* A variant that ends every command's task and readers.
TasksAfterShutdownKilled(map) ==
    [ id \in DOMAIN map |->
        [map[id] EXCEPT !.state = "killed", !.out_left = 0, !.err_left = 0] ]

\* shutdown has no handle on the tasks execute_command spawned, nor on
\* their children: they run on.
TasksAfterShutdown(map) == map

\* sessions.write().await; sessions.clear().  active_session_id is not
\* touched.
ShutdownClear(p) ==
    /\ pc[p] = "sd_sessions"
    /\ Acquire(p)
    /\ sessions' = << >>
    /\ tasks' = TasksAfterShutdown(tasks)
    /\ IF loc[p].op = "builtin_exit"
       THEN Return(p, Ok("builtin", <<"System", "Goodbye!">>))
       ELSE Return(p, Ok("shutdown", None))
    /\ UNCHANGED << active_session_id, is_running, events, cwd,
                    nextSession, nextBlock >>
    /\ UNCHANGED outsideEngine

\* ------------------------------------------------ handle_builtin_command
\* "clear": get_active_session, then clear_session
CallBuiltinClear(p, command) ==
    /\ pc[p] = "idle"
    /\ BuiltinKind(command) = "clear"
    /\ pc' = [pc EXCEPT ![p] = "ga_active"]
    /\ loc' = [loc EXCEPT ![p] =
                 [NoLoc EXCEPT !.op = "builtin_clear", !.command = command]]
    /\ ret' = NoRet
    /\ UNCHANGED << engineVars, sessionsQ, activeQ >>
    /\ UNCHANGED outsideEngine

\* "exit" | "quit": shutdown
CallBuiltinExit(p, command) ==
    /\ pc[p] = "idle"
    /\ BuiltinKind(command) = "exit"
    /\ is_running' = FALSE
    /\ pc' = [pc EXCEPT ![p] = "sd_sessions"]
    /\ loc' = [loc EXCEPT ![p] =
                 [NoLoc EXCEPT !.op = "builtin_exit", !.command = command]]
    /\ ret' = NoRet
    /\ UNCHANGED << sessions, active_session_id, events, tasks, cwd,
                    nextSession, nextBlock, sessionsQ, activeQ >>
    /\ UNCHANGED outsideEngine

\* std::env::set_current_dir(path) followed by std::env::current_dir():
\* the directory the process ends up in, None when the path names no
\* directory.  A relative path is resolved against the directory the
\* process is in.
ResolveDir(dir, path) ==
    CASE path = ".." -> Some("/")
      [] path = "." -> Some(dir)
      [] path \in Dirs -> Some(path)
      [] OTHER -> None

\* "cd <path>": set_current_dir(path) and current_dir() come before any
\* await; new_dir is the resolved directory.
CallBuiltinCd(p, command) ==
    /\ pc[p] = "idle"
    /\ BuiltinKind(command) = "cd"
    /\ IF IsSome(ResolveDir(cwd, command[2]))
       THEN /\ cwd' = Unwrap(ResolveDir(cwd, command[2]))
            /\ pc' = [pc EXCEPT ![p] = "cd_active"]
            /\ loc' = [loc EXCEPT ![p] =
                         [NoLoc EXCEPT
                            !.op = "builtin_cd",
                            !.command = command,
                            !.dir = Unwrap(ResolveDir(cwd, command[2]))]]
            /\ ret' = NoRet
       ELSE /\ UNCHANGED cwd
            /\ Return(p, Err("builtin"))
    /\ UNCHANGED << sessions, active_session_id, is_running, events, tasks,
                    nextSession, nextBlock, sessionsQ, activeQ >>
    /\ UNCHANGED outsideEngine

\* if let Some(active_id) = *self.active_session_id.read().await
BuiltinCdReadActive(p) ==
    /\ pc[p] = "cd_active"
    /\ Acquire(p)
    /\ IF IsSome(active_session_id)
       THEN Goto(p, "cd_sessions",
                 [loc[p] EXCEPT !.session_id = Unwrap(active_session_id)])
       ELSE Return(p, Ok("builtin",
                         <<"System", "Changed directory to: ", loc[p].dir>>))
    /\ UNCHANGED engineVars
    /\ UNCHANGED outsideEngine

\* A variant that leaves the session's directory alone.
SessionsAfterCdSkipped(map, session_id, dir) == map

\* session.current_directory = new_dir when the session is in the map
SessionsAfterCd(map, session_id, dir) ==
    IF session_id \in DOMAIN map
    THEN [map EXCEPT ![session_id].current_directory = dir]
    ELSE map

\* sessions.write().await, the active-id read guard still alive
BuiltinCdSetDirectory(p) ==
    /\ pc[p] = "cd_sessions"
    /\ Acquire(p)
    /\ sessions' = SessionsAfterCd(sessions, loc[p].session_id, loc[p].dir)
    /\ Return(p, Ok("builtin",
                    <<"System", "Changed directory to: ", loc[p].dir>>))
    /\ UNCHANGED << active_session_id, is_running, events, tasks, cwd,
                    nextSession, nextBlock >>
    /\ UNCHANGED outsideEngine

\* "pwd": an Output block with the process directory; no await.
CallBuiltinPwd(p, command) ==
    /\ pc[p] = "idle"
    /\ BuiltinKind(command) = "pwd"
    /\ Return(p, Ok("builtin", <<"Output", cwd>>))
    /\ UNCHANGED << engineVars, sessionsQ, activeQ >>
    /\ UNCHANGED outsideEngine

\* Any other string: None, the command is no built-in.
CallBuiltinNone(p, command) ==
    /\ pc[p] = "idle"
    /\ BuiltinKind(command) = "none"
    /\ Return(p, Ok("builtin", None))
    /\ UNCHANGED << engineVars, sessionsQ, activeQ >>
    /\ UNCHANGED outsideEngine

\* ------------------------------------------------------------------ Next
\* The operations of the engine on sessions and blocks, called one at a
\* time by one client task.  The background tasks are left out here: they
\* write only `events` and `tasks`, which no operation reads.  The cd
\* built-in, which writes only directories, is in DirSpec.
Client == {"t1"}

Next ==
    \/ \E p \in Client : CallCreateSession(p)
    \/ \E p \in Client : CreateSessionInsert(p)
    \/ \E p \in Client : CreateSessionActivate(p)
    \/ \E p \in Client : CallGetActiveSession(p)
    \/ \E p \in Client : GetActiveRead(p)
    \/ \E p \in Client : GetActiveLookup(p)
    \/ \E p \in Client, s \in KnownSessions : CallSwitchSession(p, s)
    \/ \E p \in Client : SwitchSessionCheck(p)
    \/ \E p \in Client : SwitchSessionSet(p)
    \/ \E p \in Client, c \in SessionCommands : CallExecute(p, c)
    \/ \E p \in Client : ExecuteReadActive(p)
    \/ \E p \in Client : ExecuteWorkingDirectory(p)
    \/ \E p \in Client : ExecuteAddBlock(p)
    \/ \E p \in Client : ExecuteSendAndSpawn(p)
    \/ \E p \in Client, id \in KnownIds, e \in BOOLEAN :
          CallHandleCommandOutput(p, id, e)
    \/ \E p \in Client : HandleCommandOutput(p)
    \/ \E p \in Client, id \in KnownIds, x \in ExitArgs :
          CallHandleCommandFinished(p, id, x)
    \/ \E p \in Client : HandleCommandFinished(p)
    \/ \E p \in Client, s \in KnownSessions : CallGetSessionBlocks(p, s)
    \/ \E p \in Client : GetSessionBlocks(p)
    \/ \E p \in Client, s \in KnownSessions : CallClearSession(p, s)
    \/ \E p \in Client : ClearSession(p)
    \/ \E p \in Client : CallShutdown(p)
    \/ \E p \in Client : ShutdownClear(p)
    \/ \E p \in Client, c \in Commands : CallBuiltinClear(p, c)
    \/ \E p \in Client, c \in Commands : CallBuiltinExit(p, c)
    \/ \E p \in Client, c \in Commands : CallBuiltinPwd(p, c)
    \/ \E p \in Client, c \in Commands : CallBuiltinNone(p, c)
    \/ \E p \in Client : Wait(p)

Spec == Init /\ [][Next]_vars

\* The command pipeline: create_session, execute_command and shutdown, and
\* the background tasks of the commands started.  The operations left out
\* write neither `events` nor `tasks`.
PipelineNext ==
    \/ \E p \in Client : CallCreateSession(p)
    \/ \E p \in Client : CreateSessionInsert(p)
    \/ \E p \in Client : CreateSessionActivate(p)
    \/ \E p \in Client, c \in ExecCommands :
          Cardinality(DOMAIN tasks) < MaxPipelines /\ CallExecute(p, c)
    \/ \E p \in Client : ExecuteReadActive(p)
    \/ \E p \in Client : ExecuteWorkingDirectory(p)
    \/ \E p \in Client : ExecuteAddBlock(p)
    \/ \E p \in Client : ExecuteSendAndSpawn(p)
    \/ \E p \in Client : CallShutdown(p)
    \/ \E p \in Client, c \in Commands : CallBuiltinExit(p, c)
    \/ \E p \in Client : ShutdownClear(p)
    \/ \E p \in Client : Wait(p)
    \/ \E id \in DOMAIN tasks : SpawnChild(id)
    \/ \E id \in DOMAIN tasks : SpawnFails(id)
    \/ \E id \in DOMAIN tasks : StdoutReader(id)
    \/ \E id \in DOMAIN tasks : StderrReader(id)
    \/ \E id \in DOMAIN tasks : WaitReturns(id)
    \/ \E id \in DOMAIN tasks : WaitFails(id)

PipelineSpec == Init /\ [][PipelineNext]_vars

\* The runtime schedules every spawned task: a task that can take its next
\* step, and stays able to, takes it.  The child of the model writes its
\* lines and exits, so the wait on it ends.
TaskFairness ==
    \A id \in 1..MaxBlocks :
        /\ WF_vars(SpawnChild(id) \/ SpawnFails(id))
        /\ WF_vars(StdoutReader(id))
        /\ WF_vars(StderrReader(id))
        /\ WF_vars(WaitReturns(id) \/ WaitFails(id))

PipelineFairSpec == Init /\ [][PipelineNext]_vars /\ TaskFairness

\* Directories: the cd and pwd built-ins with the operations that create,
\* select and drop sessions.
DirNext ==
    \/ \E p \in Client : CallCreateSession(p)
    \/ \E p \in Client : CreateSessionInsert(p)
    \/ \E p \in Client : CreateSessionActivate(p)
    \/ \E p \in Client, s \in KnownSessions : CallSwitchSession(p, s)
    \/ \E p \in Client : SwitchSessionCheck(p)
    \/ \E p \in Client : SwitchSessionSet(p)
    \/ \E p \in Client : CallShutdown(p)
    \/ \E p \in Client : ShutdownClear(p)
    \/ \E p \in Client, c \in Commands : CallBuiltinCd(p, c)
    \/ \E p \in Client : BuiltinCdReadActive(p)
    \/ \E p \in Client : BuiltinCdSetDirectory(p)
    \/ \E p \in Client, c \in Commands : CallBuiltinPwd(p, c)

DirSpec == Init /\ [][DirNext]_vars

\* The cd command handed to the built-in dispatcher where only the locks
\* are looked at.
ConcurrentCommands == { <<"cd", "/">> }

\* Two tasks calling the engine at once: the operations that take both
\* locks, in either order, and create_session, which makes the sessions
\* they work on.
ConcurrentNext ==
    \/ \E p \in Callers : CallCreateSession(p)
    \/ \E p \in Callers : CreateSessionInsert(p)
    \/ \E p \in Callers : CreateSessionActivate(p)
    \/ \E p \in Callers : CallGetActiveSession(p)
    \/ \E p \in Callers : GetActiveRead(p)
    \/ \E p \in Callers : GetActiveLookup(p)
    \/ \E p \in Callers, s \in KnownSessions : CallSwitchSession(p, s)
    \/ \E p \in Callers : SwitchSessionCheck(p)
    \/ \E p \in Callers : SwitchSessionSet(p)
    \/ \E p \in Callers, c \in SessionCommands : CallExecute(p, c)
    \/ \E p \in Callers : ExecuteReadActive(p)
    \/ \E p \in Callers : ExecuteWorkingDirectory(p)
    \/ \E p \in Callers : ExecuteAddBlock(p)
    \/ \E p \in Callers : ExecuteSendAndSpawn(p)
    \/ \E p \in Callers, c \in ConcurrentCommands : CallBuiltinCd(p, c)
    \/ \E p \in Callers : BuiltinCdReadActive(p)
    \/ \E p \in Callers : BuiltinCdSetDirectory(p)
    \/ \E p \in Callers : Wait(p)

ConcurrentSpec == Init /\ [][ConcurrentNext]_vars

\* -------------------------------------------------------- CommandHistory
\* What the history calls leave alone: the engine and its callers.
engineState == << engineVars, sessionsQ, activeQ, pc, loc, ret >>

\* while self.entries.len() > self.max_entries { self.entries.pop_front() }
RECURSIVE PopFrontWhileOver(_, _)
PopFrontWhileOver(entries, max_entries) ==
    IF Len(entries) > max_entries
    THEN PopFrontWhileOver(Tail(entries), max_entries)
    ELSE entries

\* A variant that compares the new entry with every entry kept.
IsDuplicateOfAny(entries, entry) ==
    \E i \in 1..Len(entries) : entries[i].command = entry.command

\* if let Some(last) = self.entries.back() { last.command == entry.command }
IsDuplicate(entries, entry) ==
    Len(entries) > 0 /\ entries[Len(entries)].command = entry.command

\* A variant that drops the newest entries when the history is full.
EntriesAfterAddKeepOldest(entries, entry, max_entries) ==
    IF Len(entries) < max_entries THEN Append(entries, entry) ELSE entries

\* push_back, then the loop that keeps the size.
EntriesAfterAdd(entries, entry, max_entries) ==
    PopFrontWhileOver(Append(entries, entry), max_entries)

\* A variant that unsets the cursor for a rejected duplicate too.
add_entry_resetting(h, entry) ==
    IF IsDuplicate(h.entries, entry)
    THEN [h EXCEPT !.current_index = None]
    ELSE [h EXCEPT !.entries = EntriesAfterAdd(@, entry, h.max_entries),
                   !.current_index = None]

\* CommandHistory::add_entry: a duplicate of the last entry returns before
\* anything is written, the cursor included.
add_entry(h, entry) ==
    IF IsDuplicate(h.entries, entry)
    THEN h
    ELSE [h EXCEPT !.entries = EntriesAfterAdd(@, entry, h.max_entries),
                   !.current_index = None]

AddEntry(entry) ==
    /\ Len(added) < MaxAdds
    /\ history' = add_entry(history, entry)
    /\ recalled' = Returned("add_entry", None)
    /\ added' = Append(added, entry)
    /\ previous_calls' =
          IF IsDuplicate(history.entries, entry) THEN previous_calls ELSE 0
    /\ UNCHANGED << engineState, ptyVars, vteVars >>

\* A variant of get_previous that wraps around from the oldest entry to
\* the newest.
PreviousIndexWrapping(h) ==
    IF h.current_index = None \/ Unwrap(h.current_index) = 0
    THEN Len(h.entries) - 1
    ELSE Unwrap(h.current_index) - 1

\* The index get_previous moves the cursor to, for a history with entries.
PreviousIndex(h) ==
    IF h.current_index = None
    THEN Len(h.entries) - 1
    ELSE IF Unwrap(h.current_index) > 0
         THEN Unwrap(h.current_index) - 1
         ELSE Unwrap(h.current_index)

\* CommandHistory::get_previous
GetPrevious ==
    /\ previous_calls < MaxRecalls
    /\ IF Len(history.entries) = 0
       THEN /\ UNCHANGED history
            /\ recalled' = Returned("get_previous", None)
       ELSE /\ history' =
                  [history EXCEPT !.current_index = Some(PreviousIndex(history))]
            /\ recalled' =
                  Returned("get_previous",
                           EntryAt(history.entries, PreviousIndex(history)))
    /\ previous_calls' =
          IF previous_calls >= 0 THEN previous_calls + 1 ELSE previous_calls
    /\ UNCHANGED << added, engineState, ptyVars, vteVars >>

\* A variant of get_next that stays on the newest entry.
NextIndexClamped(h) ==
    IF Unwrap(h.current_index) < Len(h.entries) - 1
    THEN Some(Unwrap(h.current_index) + 1)
    ELSE h.current_index

\* Where get_next moves a set cursor to, for a history with entries: one
\* up, or unset from the newest entry.
NextIndex(h) ==
    IF Unwrap(h.current_index) < Len(h.entries) - 1
    THEN Some(Unwrap(h.current_index) + 1)
    ELSE None

\* CommandHistory::get_next.  With the cursor set on an empty history
\* `self.entries.len() - 1` underflows: a panic where overflow is checked,
\* and a wrap to usize::MAX elsewhere, where the cursor moves on and get
\* finds no entry.
GetNext ==
    /\ IF history.current_index = None
       THEN /\ UNCHANGED history
            /\ recalled' = Returned("get_next", None)
       ELSE IF Len(history.entries) = 0
       THEN \/ /\ UNCHANGED history
               /\ recalled' = Returned("panic", None)
            \/ /\ history' = [history EXCEPT
                                 !.current_index = Some(Unwrap(@) + 1)]
               /\ recalled' = Returned("get_next", None)
       ELSE /\ history' = [history EXCEPT !.current_index = NextIndex(history)]
            /\ recalled' =
                  Returned("get_next",
                           IF NextIndex(history) = None
                           THEN None
                           ELSE EntryAt(history.entries,
                                        Unwrap(NextIndex(history))))
    /\ previous_calls' = IF history'.current_index = None THEN 0 ELSE -1
    /\ UNCHANGED << added, engineState, ptyVars, vteVars >>

\* A variant of clear that leaves the cursor where it was.
ClearKeepingCursor ==
    /\ history' = [history EXCEPT !.entries = << >>]
    /\ recalled' = Returned("clear", None)
    /\ added' = << >>
    /\ previous_calls' = 0
    /\ UNCHANGED << engineState, ptyVars, vteVars >>

\* CommandHistory::clear
Clear ==
    /\ history' = [history EXCEPT !.entries = << >>, !.current_index = None]
    /\ recalled' = Returned("clear", None)
    /\ added' = << >>
    /\ previous_calls' = 0
    /\ UNCHANGED << engineState, ptyVars, vteVars >>

\* A CommandHistory of any bound up to MaxEntries, with an engine that
\* stays as constructed.
HistoryInit ==
    /\ sessions = << >>
    /\ active_session_id = None
    /\ is_running = TRUE
    /\ events = << >>
    /\ tasks = << >>
    /\ cwd = "/tmp"
    /\ nextSession = 1
    /\ nextBlock = 1
    /\ sessionsQ = << >>
    /\ activeQ = << >>
    /\ pc = [p \in Callers |-> "idle"]
    /\ loc = [p \in Callers |-> NoLoc]
    /\ ret = NoRet
    /\ \E n \in 0..MaxEntries : history = CommandHistory_new(n)
    /\ recalled = NoCall
    /\ added = << >>
    /\ previous_calls = 0
    /\ PtyInit
    /\ VteInit

HistoryNext ==
    \/ \E e \in HistoryEntries : AddEntry(e)
    \/ GetPrevious
    \/ GetNext
    \/ Clear

HistorySpec == HistoryInit /\ [][HistoryNext]_vars

\* ------------------------------------------------------------ PtySession
\* What a call on a PtySession did: the value it returned, what the status
\* poll answered, and whether kill and wait were called on the child.
NoPtyCall ==
    [ op |-> "none", pty |-> 0, value |-> "none", poll |-> "none",
      kill |-> FALSE, wait |-> FALSE ]

PtyCall(op, i, value, poll, kill, wait) ==
    [ op |-> op, pty |-> i, value |-> value, poll |-> poll,
      kill |-> kill, wait |-> wait ]

\* The sessions, the calls made on them and the engine besides.
notPty == << engineState, historyVars, vteVars >>

\* Ok(PtySession { pty_pair, child: Some(child) }): the child runs.
PtySession_new ==
    [ child |-> Some("child"), process |-> "running",
      killed |-> FALSE, dropped |-> FALSE ]

\* PtyManager::create_pty: openpty(..)? and spawn_command(cmd)? may fail,
\* and then there is no session.
CreatePty ==
    /\ Len(ptys) < MaxPtys
    /\ \/ /\ ptys' = Append(ptys, PtySession_new)
          /\ pty_ret' = PtyCall("create_pty", Len(ptys) + 1, "Ok", "none",
                                FALSE, FALSE)
       \/ /\ UNCHANGED ptys
          /\ pty_ret' = PtyCall("create_pty", 0, "Err", "none", FALSE, FALSE)
    /\ UNCHANGED notPty

\* The sessions not dropped yet: the ones a call can be made on.
LiveSessions == { i \in 1..Len(ptys) : ~ptys[i].dropped }

\* The shell exits by itself.
ChildExits(i) ==
    /\ i \in LiveSessions
    /\ ptys[i].process = "running"
    /\ ptys' = [ptys EXCEPT ![i].process = "exited"]
    /\ pty_ret' = NoPtyCall
    /\ UNCHANGED notPty

\* What child.try_wait() can answer: Ok(None) while the child runs,
\* Ok(Some(status)) once it has exited, Err(_) at any time.
TryWaitOutcomes(process) ==
    IF process = "running" THEN {"Ok(None)", "Err"} ELSE {"Ok(Some)", "Err"}

\* The match of is_child_alive on the poll's answer.
AliveOn(outcome) ==
    CASE outcome = "Ok(Some)" -> "false"
      [] outcome = "Ok(None)" -> "true"
      [] outcome = "Err" -> "false"

\* try_wait collects the status of a child that has exited.
ProcessAfterTryWait(process, outcome) ==
    IF outcome = "Ok(Some)" THEN "reaped" ELSE process

\* PtySession::is_child_alive
IsChildAlive(i) ==
    /\ i \in LiveSessions
    /\ IF IsSome(ptys[i].child)
       THEN \E outcome \in TryWaitOutcomes(ptys[i].process) :
               /\ ptys' = [ptys EXCEPT ![i].process =
                             ProcessAfterTryWait(@, outcome)]
               /\ pty_ret' = PtyCall("is_child_alive", i, AliveOn(outcome),
                                     outcome, FALSE, FALSE)
       ELSE /\ UNCHANGED ptys
            /\ pty_ret' = PtyCall("is_child_alive", i, "false", "none",
                                  FALSE, FALSE)
    /\ UNCHANGED notPty

\* The body of kill_child on a session whose child is Some: take() empties
\* the field first; child.kill()? returns early on Err, before the wait;
\* the result of child.wait() is dropped.
KillTaken(i, op, dropping) ==
    \/ /\ ptys' = [ptys EXCEPT ![i].child = None, ![i].killed = TRUE,
                               ![i].dropped = dropping]
       /\ pty_ret' = PtyCall(op, i, "Err", "none", TRUE, FALSE)
    \/ \E reaped \in {"reaped", "exited"} :
          /\ ptys' = [ptys EXCEPT ![i].child = None, ![i].killed = TRUE,
                                  ![i].dropped = dropping,
                                  ![i].process =
                                     IF @ = "reaped" THEN @ ELSE reaped]
          /\ pty_ret' = PtyCall(op, i, "Ok", "none", TRUE, TRUE)

\* The body of kill_child on a session whose child is None: Ok(()).
KillNone(i, op, dropping) ==
    /\ ptys' = [ptys EXCEPT ![i].killed = TRUE, ![i].dropped = dropping]
    /\ pty_ret' = PtyCall(op, i, "Ok", "none", FALSE, FALSE)

\* PtySession::kill_child
KillChild(i) ==
    /\ i \in LiveSessions
    /\ IF IsSome(ptys[i].child)
       THEN KillTaken(i, "kill_child", FALSE)
       ELSE KillNone(i, "kill_child", FALSE)
    /\ UNCHANGED notPty

\* Drop for PtySession: kill_child, its Err logged; the session is gone.
DropSession(i) ==
    /\ i \in LiveSessions
    /\ IF IsSome(ptys[i].child)
       THEN KillTaken(i, "drop", TRUE)
       ELSE KillNone(i, "drop", TRUE)
    /\ UNCHANGED notPty

PtyNext ==
    \/ CreatePty
    \/ \E i \in 1..MaxPtys : ChildExits(i)
    \/ \E i \in 1..MaxPtys : IsChildAlive(i)
    \/ \E i \in 1..MaxPtys : KillChild(i)
    \/ \E i \in 1..MaxPtys : DropSession(i)

PtySpec == Init /\ [][PtyNext]_vars

\* ---------------------------------------------------------- VtePerformer
\* TerminalAction values.
TerminalAction_Print(c) == [ type |-> "Print", c |-> c ]

Simple(type) == [ type |-> type ]

SetCursorPosition(row, col) ==
    [ type |-> "SetCursorPosition", row |-> row, col |-> col ]

SetColor(type, rgb) ==
    [ type |-> type, r |-> rgb[1], g |-> rgb[2], b |-> rgb[3] ]

SetStyle(type, on) == [ type |-> type, on |-> on ]

\* A variant whose table has red and green swapped.
colors_swapped ==
    << <<0, 0, 0>>, <<0, 128, 0>>, <<128, 0, 0>>, <<128, 128, 0>>,
       <<0, 0, 128>>, <<128, 0, 128>>, <<0, 128, 128>>, <<192, 192, 192>> >>

\* The table of csi_dispatch's 30..=37 and 40..=47 arms: black, red,
\* green, yellow, blue, magenta, cyan, white.
colors ==
    << <<0, 0, 0>>, <<128, 0, 0>>, <<0, 128, 0>>, <<128, 128, 0>>,
       <<0, 0, 128>>, <<128, 0, 128>>, <<0, 128, 128>>, <<192, 192, 192>> >>

\* A variant that pushes the character twice.
print_twice(acts, c) ==
    Append(Append(acts, TerminalAction_Print(c)), TerminalAction_Print(c))

\* VtePerformer::print
print(acts, c) == Append(acts, TerminalAction_Print(c))

\* VtePerformer::execute: \n, \r, \x08, \t; other control bytes push
\* nothing.
execute(acts, byte) ==
    CASE byte = 10 -> Append(acts, Simple("LineFeed"))
      [] byte = 13 -> Append(acts, Simple("CarriageReturn"))
      [] byte = 8 -> Append(acts, Simple("Backspace"))
      [] byte = 9 -> Append(acts, Simple("Tab"))
      [] OTHER -> acts

\* The match on param[0] in the 'm' arm: what one parameter pushes.
sgr(acts, v) ==
    CASE v = 0 -> Append(acts, Simple("Reset"))
      [] v = 1 -> Append(acts, SetStyle("SetBold", TRUE))
      [] v = 3 -> Append(acts, SetStyle("SetItalic", TRUE))
      [] v = 4 -> Append(acts, SetStyle("SetUnderline", TRUE))
      [] v = 22 -> Append(acts, SetStyle("SetBold", FALSE))
      [] v = 23 -> Append(acts, SetStyle("SetItalic", FALSE))
      [] v = 24 -> Append(acts, SetStyle("SetUnderline", FALSE))
      [] v \in 30..37 ->
            Append(acts, SetColor("SetForegroundColor", colors[v - 30 + 1]))
      [] v \in 40..47 ->
            Append(acts, SetColor("SetBackgroundColor", colors[v - 40 + 1]))
      [] OTHER -> acts

\* for param in params.iter() { match param[0] { .. } }
RECURSIVE sgr_each(_, _)
sgr_each(acts, params) ==
    IF params = << >>
    THEN acts
    ELSE sgr_each(sgr(acts, Head(params)[1]), Tail(params))

\* params.iter().nth(n - 1).and_then(|p| p[0].try_into().ok())
\*     .unwrap_or(default)
NthParam(params, n, default) ==
    IF Len(params) >= n THEN params[n][1] ELSE default

\* saturating_sub(1)
SaturatingPred(n) == IF n = 0 THEN 0 ELSE n - 1

\* VtePerformer::csi_dispatch: 'H' | 'f', 'J', 'K', 'm'; every other final
\* byte pushes nothing.
csi_dispatch(acts, params, c) ==
    CASE c \in {72, 102} ->
            Append(acts, SetCursorPosition(
                            SaturatingPred(NthParam(params, 1, 1)),
                            SaturatingPred(NthParam(params, 2, 1))))
      [] c = 74 ->
            IF NthParam(params, 1, 0) = 2
            THEN Append(acts, Simple("ClearScreen"))
            ELSE acts
      [] c = 75 -> Append(acts, Simple("ClearLine"))
      [] c = 109 -> sgr_each(acts, params)
      [] OTHER -> acts

\* A call of a Perform method: its name, the CSI parameters and the byte
\* or character handed to it.
Cb(op, params, c) == [ op |-> op, params |-> params, c |-> c ]

NoCallback == Cb("none", << >>, 0)

\* What the call does to the action vector.  hook, put, unhook,
\* osc_dispatch and esc_dispatch have empty bodies.
Perform(acts, cb) ==
    CASE cb.op = "print" -> print(acts, cb.c)
      [] cb.op = "execute" -> execute(acts, cb.c)
      [] cb.op = "csi_dispatch" -> csi_dispatch(acts, cb.params, cb.c)
      [] OTHER -> acts

\* ---------------------------------------------------------- vte::Parser
\* The escape-sequence state machine behind self.parser.advance, for
\* bytes below 128.
C0(b) == b \in (0..23) \cup {25} \cup (28..31)

\* The entry action of Escape, CsiEntry and DcsEntry: parameters cleared.
Cleared(state) ==
    [ state |-> state, params |-> << >>, group |-> << >>, param |-> 0 ]

\* A digit extends the current parameter (saturating), ';' closes it,
\* ':' closes a subparameter of it.
ParamByte(p, b) ==
    CASE b = 59 ->
            [p EXCEPT !.params = Append(@, Append(p.group, p.param)),
                      !.group = << >>, !.param = 0]
      [] b = 58 -> [p EXCEPT !.group = Append(@, p.param), !.param = 0]
      [] OTHER ->
            [p EXCEPT !.param =
                IF @ * 10 + (b - 48) > 65535 THEN 65535
                ELSE @ * 10 + (b - 48)]

\* The parameters handed to csi_dispatch: the open parameter is closed.
DispatchParams(p) == Append(p.params, Append(p.group, p.param))

Stay(p, cb) == [ parser |-> p, callback |-> cb ]

Move(p, state, cb) ==
    [ parser |-> [p EXCEPT !.state = state], callback |-> cb ]

\* Leaving OscString calls osc_dispatch, leaving DcsPassthrough unhook.
ExitCallback(p) ==
    CASE p.state = "OscString" -> Cb("osc_dispatch", << >>, 0)
      [] p.state = "DcsPassthrough" -> Cb("unhook", << >>, 0)
      [] OTHER -> NoCallback

CsiDispatched(p, b) ==
    [ parser |-> [p EXCEPT !.state = "Ground", !.params = DispatchParams(p),
                           !.group = << >>],
      callback |-> Cb("csi_dispatch", DispatchParams(p), b) ]

\* One byte through the state machine: the parser after it and the
\* Perform method it invoked.
advance(p, b) ==
    CASE b \in {24, 26} -> Move(p, "Ground", Cb("execute", << >>, b))
      [] b = 27 -> [ parser |-> Cleared("Escape"),
                     callback |-> ExitCallback(p) ]
      [] b \notin {24, 26, 27} /\ p.state = "Ground" ->
            IF C0(b) THEN Stay(p, Cb("execute", << >>, b))
            ELSE Stay(p, Cb("print", << >>, b))
      [] b \notin {24, 26, 27} /\ p.state = "Escape" ->
            CASE C0(b) -> Stay(p, Cb("execute", << >>, b))
              [] b \in 32..47 -> Move(p, "EscapeIntermediate", NoCallback)
              [] b = 91 -> [ parser |-> Cleared("CsiEntry"),
                             callback |-> NoCallback ]
              [] b = 93 -> Move(p, "OscString", NoCallback)
              [] b = 80 -> [ parser |-> Cleared("DcsEntry"),
                             callback |-> NoCallback ]
              [] b \in {88, 94, 95} -> Move(p, "SosPmApcString", NoCallback)
              [] b = 127 -> Stay(p, NoCallback)
              [] OTHER -> Move(p, "Ground", Cb("esc_dispatch", << >>, b))
      [] b \notin {24, 26, 27} /\ p.state = "EscapeIntermediate" ->
            CASE C0(b) -> Stay(p, Cb("execute", << >>, b))
              [] b \in 32..47 \/ b = 127 -> Stay(p, NoCallback)
              [] OTHER -> Move(p, "Ground", Cb("esc_dispatch", << >>, b))
      [] b \notin {24, 26, 27} /\ p.state = "CsiEntry" ->
            CASE C0(b) -> Stay(p, Cb("execute", << >>, b))
              [] b \in 32..47 -> Move(p, "CsiIntermediate", NoCallback)
              [] b \in 48..59 ->
                    [ parser |-> [ParamByte(p, b) EXCEPT !.state = "CsiParam"],
                      callback |-> NoCallback ]
              [] b \in 60..63 -> Move(p, "CsiParam", NoCallback)
              [] b = 127 -> Stay(p, NoCallback)
              [] OTHER -> CsiDispatched(p, b)
      [] b \notin {24, 26, 27} /\ p.state = "CsiParam" ->
            CASE C0(b) -> Stay(p, Cb("execute", << >>, b))
              [] b \in 32..47 -> Move(p, "CsiIntermediate", NoCallback)
              [] b \in 48..59 -> Stay(ParamByte(p, b), NoCallback)
              [] b \in 60..63 -> Move(p, "CsiIgnore", NoCallback)
              [] b = 127 -> Stay(p, NoCallback)
              [] OTHER -> CsiDispatched(p, b)
      [] b \notin {24, 26, 27} /\ p.state = "CsiIntermediate" ->
            CASE C0(b) -> Stay(p, Cb("execute", << >>, b))
              [] b \in 32..47 \/ b = 127 -> Stay(p, NoCallback)
              [] b \in 48..63 -> Move(p, "CsiIgnore", NoCallback)
              [] OTHER -> CsiDispatched(p, b)
      [] b \notin {24, 26, 27} /\ p.state = "CsiIgnore" ->
            CASE C0(b) -> Stay(p, Cb("execute", << >>, b))
              [] b \in 32..63 \/ b = 127 -> Stay(p, NoCallback)
              [] OTHER -> Move(p, "Ground", NoCallback)
      [] b \notin {24, 26, 27} /\ p.state = "OscString" ->
            IF b = 7
            THEN Move(p, "Ground", Cb("osc_dispatch", << >>, 0))
            ELSE Stay(p, NoCallback)
      [] b \notin {24, 26, 27} /\ p.state = "DcsEntry" ->
            CASE C0(b) \/ b = 127 -> Stay(p, NoCallback)
              [] b \in 32..47 -> Move(p, "DcsIntermediate", NoCallback)
              [] b = 58 -> Move(p, "DcsIgnore", NoCallback)
              [] b \in 48..63 -> Move(p, "DcsParam", NoCallback)
              [] OTHER -> Move(p, "DcsPassthrough", Cb("hook", << >>, b))
      [] b \notin {24, 26, 27} /\ p.state = "DcsParam" ->
            CASE C0(b) \/ b = 127 -> Stay(p, NoCallback)
              [] b \in 32..47 -> Move(p, "DcsIntermediate", NoCallback)
              [] b \in (48..57) \cup {59} -> Stay(p, NoCallback)
              [] b \in {58, 60, 61, 62, 63} -> Move(p, "DcsIgnore", NoCallback)
              [] OTHER -> Move(p, "DcsPassthrough", Cb("hook", << >>, b))
      [] b \notin {24, 26, 27} /\ p.state = "DcsIntermediate" ->
            CASE C0(b) \/ b = 127 -> Stay(p, NoCallback)
              [] b \in 32..47 -> Stay(p, NoCallback)
              [] b \in 48..63 -> Move(p, "DcsIgnore", NoCallback)
              [] OTHER -> Move(p, "DcsPassthrough", Cb("hook", << >>, b))
      [] b \notin {24, 26, 27} /\ p.state = "DcsPassthrough" ->
            IF b = 127 THEN Stay(p, NoCallback)
            ELSE Stay(p, Cb("put", << >>, b))
      [] OTHER -> Stay(p, NoCallback)

\* ---------------------------------------------------------- VteProcessor
\* The bytes fed: ESC, '[', ']', BEL, ';', 'm', '3', 'X', '\n'.
Bytes == {27, 91, 93, 7, 59, 109, 51, 88, 10}

notVte == << engineState, historyVars, ptyVars >>

\* process_bytes is entered: self.performer.clear_actions().
ProcessBytesCall ==
    /\ vte_pc = "idle"
    /\ vte_pc' = "feeding"
    /\ actions' = << >>
    /\ processed' = None
    /\ callback' = NoCallback
    /\ UNCHANGED << parser, input >>
    /\ UNCHANGED notVte

\* One turn of the loop: self.parser.advance(&mut self.performer, *byte).
AdvanceByte(b) ==
    /\ vte_pc = "feeding"
    /\ Len(input) < MaxBytes
    /\ input' = Append(input, b)
    /\ parser' = advance(parser, b).parser
    /\ callback' = advance(parser, b).callback
    /\ actions' = Perform(actions, advance(parser, b).callback)
    /\ UNCHANGED << vte_pc, processed >>
    /\ UNCHANGED notVte

\* self.performer.take_actions(): the vector is returned and left empty.
ProcessBytesReturn ==
    /\ vte_pc = "feeding"
    /\ vte_pc' = "idle"
    /\ processed' = Some(actions)
    /\ actions' = << >>
    /\ callback' = NoCallback
    /\ UNCHANGED << parser, input >>
    /\ UNCHANGED notVte

VteNext ==
    \/ ProcessBytesCall
    \/ \E b \in Bytes : AdvanceByte(b)
    \/ ProcessBytesReturn

VteSpec == Init /\ [][VteNext]_vars

\* ------------------------------------------- VtePerformer, method by method
\* The first parameters handed to csi_dispatch: the ones the 'm' arm
\* names, their neighbours and the 38, 39, 48, 49, 90, 107 of other colour
\* schemes.
SgrValues ==
    {0, 1, 2, 3, 4, 22, 23, 24, 29} \cup (30..39) \cup (40..49) \cup {90, 107}

\* Parameter lists of up to MaxParams parameters without subparameters.
ParamLists ==
    UNION { [1..n -> { <<v>> : v \in SgrValues }] : n \in 1..MaxParams }

\* The calls the parser can make on the performer: csi_dispatch with the
\* final bytes 'm', 'H', 'J', 'K', 'A', print and execute.
Callbacks ==
    { Cb("csi_dispatch", ps, c) : ps \in ParamLists, c \in {109, 72, 74, 75, 65} }
        \cup { Cb("print", << >>, c) : c \in {32, 88} }
        \cup { Cb("execute", << >>, b) : b \in {7, 8, 9, 10, 13} }

\* A performer with an empty action vector about to receive one call.
PerformerInit ==
    /\ sessions = << >>
    /\ active_session_id = None
    /\ is_running = TRUE
    /\ events = << >>
    /\ tasks = << >>
    /\ cwd = "/tmp"
    /\ nextSession = 1
    /\ nextBlock = 1
    /\ sessionsQ = << >>
    /\ activeQ = << >>
    /\ pc = [p \in Callers |-> "idle"]
    /\ loc = [p \in Callers |-> NoLoc]
    /\ ret = NoRet
    /\ history = CommandHistory_new(MaxEntries)
    /\ recalled = NoCall
    /\ added = << >>
    /\ previous_calls = 0
    /\ PtyInit
    /\ parser = Cleared("Ground")
    /\ actions = << >>
    /\ input = << >>
    /\ callback \in Callbacks
    /\ vte_pc = "pending"
    /\ processed = None

\* The method runs.
PerformCallback ==
    /\ vte_pc = "pending"
    /\ vte_pc' = "performed"
    /\ actions' = Perform(actions, callback)
    /\ UNCHANGED << parser, input, callback, processed >>
    /\ UNCHANGED notVte

PerformerSpec == PerformerInit /\ [][PerformCallback]_vars

\* ================================================================ claims
\* Positions in the channel of the events of one type for one command.
EventsOf(type, id) ==
    { i \in 1..Len(events) : events[i].type = type /\ events[i].id = id }

\* The child of a command's task has been spawned.
ChildSpawned(id) ==
    tasks[id].state \in {"running", "finished", "wait_failed"}

\* C1: for every command id, every CommandOutput event carrying the id is
\* in the channel before the CommandFinished event carrying the id,
\* whatever the interleaving of the two readers and the wait on the child.
C1_OutputBeforeFinished ==
    \A id \in DOMAIN tasks :
        \A o \in EventsOf("CommandOutput", id) :
            \A f \in EventsOf("CommandFinished", id) : o < f

\* C2: a call to execute_command made while no session is active does not
\* end up queued for the active-id write lock while the read guard it took
\* itself is still alive (a wait that nothing can end).
C2_ExecuteNeverWaitsOnItself ==
    \A p \in Callers :
        ~ ( /\ loc[p].op = "execute"
            /\ pc[p] = "cs_active"
            /\ p \in ActiveReaders
            /\ InQ(activeQ, p) )

\* C3: execute_command called with a built-in command string never spawns
\* a child process.
C3_BuiltinNeverSpawnsChild ==
    \A id \in DOMAIN tasks :
        BuiltinKind(tasks[id].command) # "none" => ~ChildSpawned(id)

\* C4: CommandFinished is published at most once for each command id, and
\* exactly once when the child was spawned and the wait on it succeeded.
C4_FinishedOnce ==
    \A id \in 1..nextBlock :
        /\ Cardinality(EventsOf("CommandFinished", id)) <= 1
        /\ id \in DOMAIN tasks /\ tasks[id].state = "finished"
              => Cardinality(EventsOf("CommandFinished", id)) = 1

\* C4 witness: a child was spawned, wrote a line, and was waited on.
C4_Witness ==
    \E id \in DOMAIN tasks :
        /\ tasks[id].state = "finished"
        /\ EventsOf("CommandOutput", id) # {}

\* C5: CommandStarted is in the channel when execute_command returns the
\* id, and it precedes every CommandOutput, CommandFinished and Error
\* event the command's task publishes.
C5_StartedFirst ==
    /\ ret.op = "execute" /\ ret.ok
          => EventsOf("CommandStarted", Unwrap(ret.val)) # {}
    /\ \A j \in 1..Len(events) :
          events[j].type \in {"CommandOutput", "CommandFinished", "Error"}
             => \E i \in EventsOf("CommandStarted", events[j].id) : i < j

\* C5 witness: a command has published output, and its task has ended with
\* CommandFinished or with Error.
C5_Witness ==
    \E id \in DOMAIN tasks :
        /\ EventsOf("CommandOutput", id) # {}
        /\ EventsOf("CommandFinished", id) \cup EventsOf("Error", id) # {}

\* The ids of a block list, in order.
BlockIds(blocks) == [i \in 1..Len(blocks) |-> blocks[i].id]

IsPrefix(a, b) == Len(a) <= Len(b) /\ \A i \in 1..Len(a) : a[i] = b[i]

\* The step just taken is caller p getting past the await at `label` and
\* returning.
Returns(p, label) == pc[p] = label /\ pc'[p] = "idle"

\* The sessions holding a Command block with the id.
CommandSessions(id) ==
    { s \in DOMAIN sessions :
        \E i \in 1..Len(sessions[s].blocks) :
            /\ sessions[s].blocks[i].id = id
            /\ sessions[s].blocks[i].block_type = "Command" }

\* The Command block with the id has its exit code set.
Stamped(id) ==
    \E s \in DOMAIN sessions :
        \E i \in 1..Len(sessions[s].blocks) :
            /\ sessions[s].blocks[i].id = id
            /\ sessions[s].blocks[i].block_type = "Command"
            /\ IsSome(sessions[s].blocks[i].exit_code)

\* C6 as claimed: across every engine step, clear_session included, the
\* block ids a session held before are a prefix of those it holds after.
C6_AppendOnlyAlways ==
    [][ \A s \in DOMAIN sessions :
          s \in DOMAIN sessions'
             => IsPrefix(BlockIds(sessions[s].blocks),
                         BlockIds(sessions'[s].blocks)) ]_vars

\* C6 amended: across every engine step that is not clear_session of that
\* session (called directly or by the clear built-in), the block ids a
\* session held before are a prefix of those it holds after.
C6_AppendOnlyUnlessCleared ==
    [][ \A s \in DOMAIN sessions :
          /\ s \in DOMAIN sessions'
          /\ ~ \E p \in Callers :
                 Returns(p, "cl_sessions") /\ loc[p].session_id = s
          => IsPrefix(BlockIds(sessions[s].blocks),
                      BlockIds(sessions'[s].blocks)) ]_vars

\* C6 witness: a session that was appended to twice.
C6_Witness ==
    \E s \in DOMAIN sessions : Len(sessions[s].blocks) >= 2

\* C7: once a Command block has an exit code, a further
\* handle_command_finished with its id leaves the exit code as it was.
C7_ExitCodeFinal ==
    [][ \A p \in Callers :
          Returns(p, "hf_sessions")
             => \A s \in DOMAIN sessions :
                   \A i \in 1..Len(sessions[s].blocks) :
                       /\ sessions[s].blocks[i].id = loc[p].id
                       /\ sessions[s].blocks[i].block_type = "Command"
                       /\ IsSome(sessions[s].blocks[i].exit_code)
                       => sessions'[s].blocks[i].exit_code
                             = sessions[s].blocks[i].exit_code ]_vars

\* C8: whenever execute_command returns a command id, the active session
\* holds a Command block with that id, after shutdown too.
C8_ReturnedCommandInActiveSession ==
    ret.op = "execute" /\ ret.ok
       => /\ IsSome(active_session_id)
          /\ Unwrap(active_session_id) \in CommandSessions(Unwrap(ret.val))

\* C9: handle_command_output(cmd_id, _, is_stderr) appends exactly one
\* block, Error when is_stderr and Output otherwise, to the session holding
\* the Command block with id cmd_id and leaves every other session as it
\* was; when no session holds a block with the id, no session changes.
C9_OutputAppendsToOwner ==
    [][ \A p \in Callers :
          Returns(p, "ho_sessions")
             => /\ \A s \in CommandSessions(loc[p].id) :
                      /\ DOMAIN sessions' = DOMAIN sessions
                      /\ Len(sessions'[s].blocks) = Len(sessions[s].blocks) + 1
                      /\ IsPrefix(sessions[s].blocks, sessions'[s].blocks)
                      /\ sessions'[s].blocks[Len(sessions'[s].blocks)].block_type
                            = IF loc[p].flag THEN "Error" ELSE "Output"
                      /\ sessions'[s].current_directory
                            = sessions[s].current_directory
                      /\ \A t \in DOMAIN sessions \ {s} :
                            sessions'[t] = sessions[t]
                /\ Matching(loc[p].id) = {} => sessions' = sessions ]_vars

\* C9 witness: stderr output was appended behind a Command block while a
\* second session held blocks of its own.
C9_Witness ==
    \E s \in DOMAIN sessions, t \in DOMAIN sessions :
        /\ s # t
        /\ Len(sessions[s].blocks) = 2
        /\ sessions[s].blocks[1].block_type = "Command"
        /\ sessions[s].blocks[2].block_type = "Error"
        /\ Len(sessions[t].blocks) = 1

\* C10: handle_command_output for a command whose Command block already
\* has its exit code appends no block to any session.
C10_LateOutputDropped ==
    [][ \A p \in Callers :
          Returns(p, "ho_sessions") /\ Stamped(loc[p].id)
             => sessions' = sessions ]_vars

\* C11: handle_command_finished(cmd_id, exit) on a command whose Command
\* block is in a session leaves that block with exit code `exit` and with
\* an execution time recorded, and changes no other block of any session.
C11_FinishedStampsCodeAndTime ==
    [][ \A p \in Callers :
          Returns(p, "hf_sessions")
             => \A s \in CommandSessions(loc[p].id) :
                   /\ DOMAIN sessions' = DOMAIN sessions
                   /\ Len(sessions'[s].blocks) = Len(sessions[s].blocks)
                   /\ \A i \in 1..Len(sessions[s].blocks) :
                         IF /\ sessions[s].blocks[i].id = loc[p].id
                            /\ sessions[s].blocks[i].block_type = "Command"
                         THEN /\ sessions'[s].blocks[i].exit_code
                                    = Some(loc[p].code)
                              /\ IsSome(sessions'[s].blocks[i].execution_time)
                         ELSE sessions'[s].blocks[i] = sessions[s].blocks[i]
                   /\ \A t \in DOMAIN sessions \ {s} :
                         sessions'[t] = sessions[t] ]_vars

\* The exit code of the Command block with the id, in whatever session
\* holds it.
ExitCodes(id) ==
    UNION { { sessions[s].blocks[i].exit_code :
                i \in { j \in 1..Len(sessions[s].blocks) :
                          /\ sessions[s].blocks[j].id = id
                          /\ sessions[s].blocks[j].block_type = "Command" } } :
            s \in DOMAIN sessions }

\* C12: when the child of a command cannot be spawned, exactly one Error
\* event is published for it, no CommandOutput and no CommandFinished is
\* ever published for its id, the failure leaves every session as it was,
\* and the command's block has no exit code.
C12_SpawnFailure ==
    /\ [] \A id \in DOMAIN tasks :
            tasks[id].state = "spawn_failed"
               => /\ Cardinality(EventsOf("Error", id)) = 1
                  /\ EventsOf("CommandOutput", id) = {}
                  /\ EventsOf("CommandFinished", id) = {}
                  /\ ExitCodes(id) \subseteq {None}
    /\ [][ \A id \in DOMAIN tasks :
             tasks[id].state = "start" /\ tasks'[id].state = "spawn_failed"
                => sessions' = sessions ]_vars

\* C12 witness: the spawn failed for a command whose block is in a
\* session.
C12_Witness ==
    \E id \in DOMAIN tasks :
        /\ tasks[id].state = "spawn_failed"
        /\ CommandSessions(id) # {}
        /\ EventsOf("Error", id) # {}

\* C13: when the wait on the child of a command fails, an Error event is
\* published and the exit code -1 is recorded for the command, in a
\* CommandFinished event or on its Command block.
C13_WaitFailureRecordsMinusOne ==
    \A id \in DOMAIN tasks :
        tasks[id].state = "wait_failed"
           => /\ EventsOf("Error", id) # {}
              /\ \/ \E i \in EventsOf("CommandFinished", id) :
                       events[i].exit_code = -1
                 \/ Some(-1) \in ExitCodes(id)

C15_UnknownSession ==
    [][ \A p \in Callers :
          /\ loc[p].session_id \notin DOMAIN sessions
          /\ \/ Returns(p, "sw_sessions")
             \/ Returns(p, "gb_sessions")
             \/ Returns(p, "cl_sessions") /\ loc[p].op = "clear_session"
          => /\ ret' = [ caller |-> p, op |-> loc[p].op, ok |-> FALSE,
                         val |-> << >> ]
             /\ sessions' = sessions
             /\ active_session_id' = active_session_id ]_vars

\* C15 witness: one of the three was refused while a session with a block
\* was active.
C15_Witness ==
    /\ ret.op \in {"switch_session", "clear_session", "get_session_blocks"}
    /\ ~ret.ok
    /\ IsSome(active_session_id)
    /\ Unwrap(active_session_id) \in DOMAIN sessions
    /\ Len(sessions[Unwrap(active_session_id)].blocks) > 0

\* The step just taken is caller p's cd built-in failing at
\* set_current_dir.
CdFails(p) ==
    /\ pc[p] = "idle" /\ pc'[p] = "idle"
    /\ ret' = [ caller |-> p, op |-> "builtin", ok |-> FALSE, val |-> << >> ]

\* The block lists of all sessions.
BlockLists == [ s \in DOMAIN sessions |-> sessions[s].blocks ]

\* C16: the cd built-in, when it succeeds, sets the current_directory of
\* the active session to the directory the process is now in and returns a
\* System block naming that directory; when it fails it returns an error
\* and leaves the process directory and every session's directory as they
\* were.  In both cases no block list changes.
C16_ChangeDirectory ==
    [][ \A p \in Callers :
          /\ Returns(p, "cd_sessions")
                => /\ ret' = [ caller |-> p, op |-> "builtin", ok |-> TRUE,
                               val |-> <<"System", "Changed directory to: ",
                                         cwd>> ]
                   /\ DOMAIN sessions' = DOMAIN sessions
                   /\ \A s \in DOMAIN sessions :
                         sessions'[s].current_directory =
                            IF active_session_id = Some(s) THEN cwd
                            ELSE sessions[s].current_directory
                   /\ BlockLists' = BlockLists
          /\ Returns(p, "cd_active")
                => /\ ret'.ok /\ ret'.val[3] = cwd
                   /\ sessions' = sessions
          /\ CdFails(p)
                => /\ cwd' = cwd
                   /\ sessions' = sessions ]_vars

\* C16 witness: cd .. succeeded with two sessions in the map; the active
\* one follows the process directory and the other keeps its own.
C16_Witness ==
    /\ ret.op = "builtin" /\ ret.ok
    /\ ret.val = <<"System", "Changed directory to: ", "/">>
    /\ cwd = "/"
    /\ \E s \in DOMAIN sessions, t \in DOMAIN sessions :
          /\ active_session_id = Some(s)
          /\ sessions[s].current_directory = "/"
          /\ sessions[t].current_directory = "/tmp"

\* The command's task has a child that was spawned and not yet reaped.
InFlight(id) == id \in DOMAIN tasks /\ tasks[id].state = "running"

\* The command's task has ended, with CommandFinished or with Error.
Ended(id) ==
    /\ id \in DOMAIN tasks
    /\ \/ tasks[id].state = "finished" /\ EventsOf("CommandFinished", id) # {}
       \/ tasks[id].state = "wait_failed" /\ EventsOf("Error", id) # {}

\* Lines of the command's child not yet published as CommandOutput.
Unread(id) ==
    IF id \in DOMAIN tasks THEN tasks[id].out_left + tasks[id].err_left ELSE 0

\* C17: shutdown, called directly or by the exit and quit built-ins, ends
\* with the running flag false and the session map empty; the flag never
\* becomes true again; shutdown does not end the commands in flight: each
\* line of theirs is still published and their wait still ends.
C17_Shutdown ==
    /\ [][ \A p \in Callers :
             Returns(p, "sd_sessions")
                => /\ ~is_running'
                   /\ sessions' = << >>
                   /\ tasks' = tasks
                   /\ events' = events ]_vars
    /\ [][ ~is_running => ~is_running' ]_vars
    /\ \A id \in 1..MaxBlocks :
          /\ (~is_running /\ InFlight(id)) ~> Ended(id)
          /\ \A n \in 1..(2 * MaxLines) :
                (~is_running /\ Unread(id) = n)
                   ~> ( /\ Unread(id) = n - 1
                        /\ Cardinality(EventsOf("CommandOutput", id)) > 0 )

\* C17 witness: shutdown has returned while a command's child was running
\* with a line not yet read.
C17_Witness ==
    /\ ret.op \in {"shutdown", "builtin"} /\ ret.ok
    /\ ~is_running
    /\ sessions = << >>
    /\ \E id \in DOMAIN tasks : InFlight(id) /\ tasks[id].out_left > 0

\* The step just taken is add_entry(entry).
Adds(entry) ==
    /\ recalled'.op = "add_entry"
    /\ added' = Append(added, entry)

\* C18: no two adjacent history entries have the same command text; an
\* add_entry whose command is that of the last entry leaves the length as
\* it was; one whose command is that of an older entry only is appended.
C18_HistoryDedup ==
    /\ [] \A i \in 1..(Len(history.entries) - 1) :
            history.entries[i].command # history.entries[i + 1].command
    /\ [][ \A e \in HistoryEntries :
             Adds(e) /\ Len(history.entries) > 0
                => IF history.entries[Len(history.entries)].command = e.command
                   THEN Len(history'.entries) = Len(history.entries)
                   ELSE /\ Len(history'.entries) > 0
                        /\ history'.entries[Len(history'.entries)] = e ]_vars

\* C18 witness: two commands were each added again with the other one in
\* between, and the second copies were appended.
C18_Witness ==
    /\ recalled.op = "add_entry"
    /\ Len(history.entries) = 2
    /\ Len(added) = 4
    /\ added[3].command = added[1].command
    /\ added[4].command = added[2].command
    /\ history.entries = << added[3], added[4] >>

\* The commands of the entries are pairwise distinct.
PairwiseDistinct(entries) ==
    \A i \in 1..Len(entries), j \in 1..Len(entries) :
        i # j => entries[i].command # entries[j].command

\* The last n elements of a sequence, all of it when it is shorter.
LastN(seq, n) ==
    IF Len(seq) <= n THEN seq ELSE SubSeq(seq, Len(seq) - n + 1, Len(seq))

\* C19: the history never holds more than max_entries entries; after K
\* pairwise distinct commands were added to an empty history it holds the
\* min(K, max_entries) added last, in insertion order.
C19_HistoryBound ==
    /\ Len(history.entries) <= history.max_entries
    /\ PairwiseDistinct(added)
          => history.entries = LastN(added, history.max_entries)

\* C19 witness: three distinct commands were added to a history of bound
\* two, and the first was dropped.
C19_Witness ==
    /\ history.max_entries = 2
    /\ Len(added) = 3
    /\ PairwiseDistinct(added)
    /\ history.entries = << added[2], added[3] >>

\* C20: after k get_previous calls in a row from an unset cursor on a
\* history of L entries, the call just made returned the k-th most recent
\* entry when k <= L, and the oldest entry with the cursor at index 0 when
\* k > L; on an empty history it returned nothing and the cursor is unset.
C20_RecallPrevious ==
    recalled.op = "get_previous" /\ previous_calls >= 1
       => LET L == Len(history.entries)
              k == previous_calls
          IN  IF L = 0
              THEN recalled.val = None /\ history.current_index = None
              ELSE IF k <= L
              THEN /\ recalled.val = Some(history.entries[L - k + 1])
                   /\ history.current_index = Some(L - k)
              ELSE /\ recalled.val = Some(history.entries[1])
                   /\ history.current_index = Some(0)

\* C20 witness: the fourth get_previous in a row on a history of two
\* entries, two calls past the oldest.
C20_Witness ==
    /\ recalled.op = "get_previous"
    /\ previous_calls = 4
    /\ Len(history.entries) = 2
    /\ recalled.val = Some(history.entries[1])
    /\ history.current_index = Some(0)

\* C21: get_next with the cursor at an index i below the newest entry
\* moves the cursor to i+1 and returns the entry there; with the cursor on
\* the newest entry it unsets the cursor and returns nothing; with the
\* cursor unset it returns nothing and leaves it unset.  A get_previous on
\* an unset cursor starts from the newest entry.
C21_RecallNext ==
    [][ LET L == Len(history.entries)
            cursor == history.current_index
        IN  /\ recalled'.op = "get_next"
                 => /\ history'.entries = history.entries
                    /\ IF cursor = None
                       THEN /\ recalled'.val = None
                            /\ history'.current_index = None
                       ELSE IF Unwrap(cursor) + 1 < L
                       THEN /\ recalled'.val
                                  = Some(history.entries[Unwrap(cursor) + 2])
                            /\ history'.current_index
                                  = Some(Unwrap(cursor) + 1)
                       ELSE /\ recalled'.val = None
                            /\ history'.current_index = None
            /\ recalled'.op = "get_previous" /\ cursor = None /\ L > 0
                 => /\ recalled'.val = Some(history.entries[L])
                    /\ history'.current_index = Some(L - 1) ]_vars

\* C21 witness: get_next has just moved the cursor from the older to the
\* newer of two entries.
C21_Witness ==
    /\ recalled.op = "get_next"
    /\ Len(history.entries) = 2
    /\ history.current_index = Some(1)
    /\ recalled.val = Some(history.entries[2])

\* C22: add_entry unsets the cursor when it appends the entry; when the
\* entry's command is that of the last entry, the entries and the cursor
\* are left as they were.
C22_AddEntryCursor ==
    [][ \A e \in HistoryEntries :
          Adds(e)
             => IF /\ Len(history.entries) > 0
                   /\ history.entries[Len(history.entries)].command = e.command
                THEN history' = history
                ELSE /\ history'.current_index = None
                     /\ history.max_entries > 0
                           => history'.entries[Len(history'.entries)] = e ]_vars

\* C22 witness: a duplicate of the last entry was handed to add_entry
\* while the cursor was set, and the cursor is still set.
C22_Witness ==
    /\ recalled.op = "add_entry"
    /\ history.current_index # None
    /\ Len(added) >= 2
    /\ added[Len(added)].command = added[Len(added) - 1].command

\* C30: the cursor is unset or an index below the number of entries, so
\* get_next never computes the length minus one of an empty history with
\* the cursor set.
C30_CursorValid ==
    /\ \/ history.current_index = None
       \/ /\ Unwrap(history.current_index) >= 0
          /\ Unwrap(history.current_index) < Len(history.entries)
    /\ recalled.op # "panic"

\* C30 witness: the cursor is set on a history that has dropped its
\* oldest entry.
C30_Witness ==
    /\ history.current_index = Some(0)
    /\ Len(history.entries) = 1
    /\ history.max_entries = 1
    /\ Len(added) = 2
    /\ history.entries[1] = added[2]

\* C25: in every reachable state only Command blocks carry an exit code,
\* whatever ids handle_command_finished was called with.
C25_ExitCodeOnCommandOnly ==
    \A s \in DOMAIN sessions :
        \A i \in 1..Len(sessions[s].blocks) :
            IsSome(sessions[s].blocks[i].exit_code)
               => sessions[s].blocks[i].block_type = "Command"

\* C28: the active-session id, when set, is the id of a session in the
\* session map.
C28_ActiveSessionInMap ==
    IsSome(active_session_id) => Unwrap(active_session_id) \in DOMAIN sessions

\* The caller's next step can be taken: it is at no lock, or the lock it
\* is at can be granted to it.
CanProceed(p) ==
    \/ pc[p] = "ex_send"
    \/ /\ pc[p] \in SessionsWritePcs \cup SessionsReadPcs
                    \cup ActiveWritePcs \cup ActiveReadPcs
       /\ CanEnter(p)

\* C27: switch_session and the cd built-in running at once never wait on
\* the two locks for one another: when one caller is in switch_session at
\* the active-id write lock and another is in the cd built-in at the
\* session-map write lock, one of the two can take its next step.
C27_NoDeadlock ==
    \A p, q \in Callers :
        (pc[p] = "sw_active" /\ pc[q] = "cd_sessions")
            => (CanProceed(p) \/ CanProceed(q))


\* The caller's handle_command_output call appends a block in this step.
OutputAppended(p) ==
    /\ pc[p] = "ho_sessions"
    /\ pc'[p] = "idle"
    /\ sessions' # sessions

\* The session's list holds a Command block carrying the id.
HoldsCommand(blocks, id) ==
    \E i \in 1..Len(blocks) :
        blocks[i].id = id /\ blocks[i].block_type = "Command"

\* C29: an Output or Error block is appended only behind a Command block
\* of the command it belongs to: when handle_command_output(command_id, ..)
\* appends a block to a session's list, that list already holds a Command
\* block whose id is command_id.
C29_OutputAfterItsCommand ==
    [][\A p \in Callers :
          OutputAppended(p) =>
             \E s \in DOMAIN sessions :
                /\ Len(sessions'[s].blocks) = Len(sessions[s].blocks) + 1
                /\ HoldsCommand(sessions[s].blocks, loc[p].id)]_vars


\* C26: for every PtySession, is_child_alive answers true only when the
\* child is present and the status poll reports it still running; once
\* kill_child has been called, is_child_alive answers false and kill_child
\* returns Ok without touching a child; dropping a session that was not
\* killed calls kill and then wait on its child.
C26_PtyLifecycle ==
    [][\A i \in 1..Len(ptys) :
          pty_ret'.pty = i =>
             /\ (pty_ret'.op = "is_child_alive" /\ pty_ret'.value = "true")
                   => (IsSome(ptys[i].child) /\ pty_ret'.poll = "Ok(None)"
                         /\ ptys[i].process = "running")
             /\ (pty_ret'.op = "is_child_alive" /\ ptys[i].killed)
                   => pty_ret'.value = "false"
             /\ (pty_ret'.op = "kill_child" /\ ptys[i].killed)
                   => (pty_ret'.value = "Ok" /\ ~pty_ret'.kill
                         /\ ~pty_ret'.wait /\ ptys'[i] = ptys[i])
             /\ (pty_ret'.op = "drop" /\ ~ptys[i].killed)
                   => (pty_ret'.kill /\ pty_ret'.wait)]_vars


\* The step feeds one byte to the parser.
ByteFed == Len(input') = Len(input) + 1

\* The byte the step feeds.
LastByte == input'[Len(input')]

\* The ASCII printable range, space to tilde.
Printable(b) == b \in 32..126

\* The Print actions in a vector.
PrintsIn(acts) == { i \in 1..Len(acts) : acts[i].type = "Print" }

Palette ==
    << [r |-> 0, g |-> 0, b |-> 0], [r |-> 128, g |-> 0, b |-> 0],
       [r |-> 0, g |-> 128, b |-> 0], [r |-> 128, g |-> 128, b |-> 0],
       [r |-> 0, g |-> 0, b |-> 128], [r |-> 128, g |-> 0, b |-> 128],
       [r |-> 0, g |-> 128, b |-> 128], [r |-> 192, g |-> 192, b |-> 192] >>

\* What the claim has one SGR parameter emit.
Emitted(v) ==
    CASE v = 0 -> << [type |-> "Reset"] >>
      [] v \in 30..37 ->
            << [ type |-> "SetForegroundColor", r |-> Palette[v - 29].r,
                 g |-> Palette[v - 29].g, b |-> Palette[v - 29].b ] >>
      [] v \in 40..47 ->
            << [ type |-> "SetBackgroundColor", r |-> Palette[v - 39].r,
                 g |-> Palette[v - 39].g, b |-> Palette[v - 39].b ] >>
      [] OTHER -> << >>

\* What the claim has a parameter list emit, in order.
RECURSIVE EmittedEach(_)
EmittedEach(params) ==
    IF params = << >>
    THEN << >>
    ELSE Emitted(Head(params)[1]) \o EmittedEach(Tail(params))

IsColourOrReset(a) ==
    a.type \in {"Reset", "SetForegroundColor", "SetBackgroundColor"}

\* The bold, italic and underline parameters.
StyleParams == {1, 3, 4, 22, 23, 24}

\* C24: after csi_dispatch of a CSI m sequence on an empty action vector,
\* the Reset and colour actions are, parameter by parameter in order,
\* Reset for 0, SetForegroundColor for 30+i and SetBackgroundColor for
\* 40+i with the i-th palette entry, and nothing for any other parameter;
\* without bold, italic or underline parameters these are all the actions.
C24_SgrMapping ==
    (vte_pc = "performed" /\ callback.op = "csi_dispatch" /\ callback.c = 109)
        => /\ SelectSeq(actions, IsColourOrReset) = EmittedEach(callback.params)
           /\ (\A i \in 1..Len(callback.params) :
                   callback.params[i][1] \notin StyleParams)
                 => actions = EmittedEach(callback.params)

\* ESC [ 31 ; 42 m was dispatched: red foreground, then green background.
C24_Witness ==
    /\ vte_pc = "performed"
    /\ callback = Cb("csi_dispatch", << <<31>>, <<42>> >>, 109)
    /\ actions = << SetColor("SetForegroundColor", <<128, 0, 0>>),
                    SetColor("SetBackgroundColor", <<0, 128, 0>>) >>

====
